---- MODULE Spec2Model ----
(***************************************************************************)
(* Model of row_reduction.c: matrix assembly (hstack), rank and consistency *)
(* analysis, the elementary row operations, the Gauss-Jordan reduction      *)
(* engine and the square-matrix inversion routine.                          *)
(*                                                                          *)
(* A double is modelled as an exact rational <<n, d>> in lowest terms with  *)
(* d > 0; <<0, 0>> stands for the result of a division by zero and for the  *)
(* content of a freshly malloc'ed cell.  A matrix buffer is a sequence of   *)
(* such values in row-major order; C index k is element k + 1.              *)
(***************************************************************************)
EXTENDS Integers, Sequences, FiniteSets, TLC

(* ------------------------------ bounds --------------------------------- *)
MaxRows == 3
MaxCols == 2
MaxAug == 1
MaxCells == 6

(* --------------------------- rational values --------------------------- *)
Abs(x) == IF x < 0 THEN -x ELSE x

RECURSIVE GCD(_, _)
GCD(a, b) == IF b = 0 THEN a ELSE GCD(b, a % b)

NaN == <<0, 0>>

Lowest(n, d) ==
    IF d = 0 THEN NaN
    ELSE LET g == GCD(Abs(n), Abs(d))
             s == IF d < 0 THEN -1 ELSE 1
         IN  <<(s * n) \div g, (s * d) \div g>>

(* n / d in lowest terms; n and d are evaluated once *)
Norm(n, d) == CHOOSE q \in {Lowest(nv, dv) : nv \in {n}, dv \in {d}} : TRUE

R(n) == <<n, 1>>

RAdd(a, b) == Norm(a[1] * b[2] + b[1] * a[2], a[2] * b[2])
RSub(a, b) == Norm(a[1] * b[2] - b[1] * a[2], a[2] * b[2])
RMul(a, b) == Norm(a[1] * b[1], a[2] * b[2])
RDiv(a, b) == Norm(a[1] * b[2], a[2] * b[1])
RLt(a, b) == a[2] # 0 /\ b[2] # 0 /\ a[1] * b[2] < b[1] * a[2]
RIsZero(a) == a[2] # 0 /\ a[1] = 0

MARGIN_OF_ERROR == <<1, 1000000>>

(* values a caller's matrix cell is drawn from *)
Vals == {R(-1), R(0), R(2)}

(* content of a destination buffer before the callee writes to it *)
Stale == R(7)

(* ------------------------------ helpers -------------------------------- *)
Max0(n) == IF n < 0 THEN 0 ELSE n

At(m, row, col, num_cols) == m[(row * num_cols) + col + 1]

Shape(r, c) == [num_rows |-> r, num_cols |-> c]

SeqsOfLen(S, n) == [1..n -> S]

(* the commented example of main() *)
ExampleMatrix == <<R(2), R(1), R(-1), R(-3), R(-1), R(2), R(-2), R(1), R(2)>>
ExampleAugment == <<R(8), R(-11), R(-3)>>

(* --------------------------- matrix assembly --------------------------- *)
hstack_first_row_of_two(matrix_one, matrix_two, result_matrix, md1, md2) ==
    LET rows == md1.num_rows
        c1 == md1.num_cols
        c2 == md2.num_cols
        tot == c1 + c2
    IN  IF rows < 1 \/ tot < 1
        THEN [matrix |-> result_matrix, meta |-> Shape(-1, -1)]
        ELSE [matrix |->
                 [k \in 1..Len(result_matrix) |->
                     IF k - 1 < rows * tot
                     THEN LET i == (k - 1) \div tot
                              j == (k - 1) % tot
                          IN  IF j < c1 THEN matrix_one[(i * c1) + j + 1]
                              ELSE matrix_two[(j - c1) + 1]
                     ELSE result_matrix[k]],
              meta |-> Shape(rows, tot)]

hstack_no_check(matrix_one, matrix_two, result_matrix, md1, md2) ==
    LET rows == md1.num_rows
        c1 == md1.num_cols
        c2 == md2.num_cols
        tot == c1 + c2
    IN  [matrix |->
            [k \in 1..Len(result_matrix) |->
                IF k - 1 < rows * tot
                THEN LET i == (k - 1) \div tot
                         j == (k - 1) % tot
                     IN  IF j < c1 THEN matrix_one[(i * c1) + j + 1]
                         ELSE matrix_two[(i * c2) + (j - c1) + 1]
                ELSE result_matrix[k]],
         meta |-> Shape(rows, tot)]

(* hstack: the result buffer and the result shape.  Row i of the result is  *)
(* the c1 values of row i of matrix_one followed by the c2 values of row i  *)
(* of matrix_two; cells past rows * (c1 + c2) are not written.              *)
hstack(matrix_one, matrix_two, result_matrix, md1, md2) ==
    LET num_rows_total == md1.num_rows
        c1 == md1.num_cols
        c2 == md2.num_cols
        num_cols_total == c1 + c2
    IN  IF num_rows_total < 1 \/ num_cols_total < 1
        THEN [matrix |-> result_matrix, meta |-> Shape(-1, -1)]
        ELSE [matrix |->
                 [k \in 1..Len(result_matrix) |->
                     IF k - 1 < num_rows_total * num_cols_total
                     THEN LET i == (k - 1) \div num_cols_total
                              j == (k - 1) % num_cols_total
                          IN  IF j < c1 THEN matrix_one[(i * c1) + j + 1]
                              ELSE matrix_two[(i * c2) + (j - c1) + 1]
                     ELSE result_matrix[k]],
              meta |-> Shape(num_rows_total, num_cols_total)]

vstack_two_at_start(matrix_one, matrix_two, result_matrix, md1, md2) ==
    LET n1 == md1.num_rows * md1.num_cols
        n2 == md2.num_rows * md2.num_cols
    IN  [matrix |->
            [k \in 1..Len(result_matrix) |->
                IF k <= n2 THEN matrix_two[k]
                ELSE IF k <= n1 THEN matrix_one[k]
                ELSE result_matrix[k]],
         meta |-> Shape(md1.num_rows + md2.num_rows, md1.num_cols)]

(* vstack: matrix_one's rows * cols cells, then matrix_two's rows * cols     *)
(* cells right behind them; the shape is (r1 + r2) x (columns of matrix_one) *)
vstack(matrix_one, matrix_two, result_matrix, md1, md2) ==
    LET num_cols_total == md1.num_cols
        num_rows_total == md1.num_rows + md2.num_rows
        n1 == md1.num_rows * md1.num_cols
        n2 == md2.num_rows * md2.num_cols
    IN  [matrix |->
            [k \in 1..Len(result_matrix) |->
                IF n1 < k /\ k <= n1 + n2 THEN matrix_two[k - n1]
                ELSE IF k <= n1 THEN matrix_one[k]
                ELSE result_matrix[k]],
         meta |-> Shape(num_rows_total, num_cols_total)]

generate_square_identity_matrix(num_rows, num_cols) ==
    [k \in 1..Max0(num_rows * num_cols) |->
        IF (k - 1) \div num_cols = (k - 1) % num_cols THEN R(1) ELSE R(0)]

(* ------------------------ rank and consistency ------------------------- *)
IsNonZeroCell_margin_is_nonzero(v) ==
    ~RIsZero(v) /\ ~(RLt(RSub(R(0), MARGIN_OF_ERROR), v) /\ RLt(v, MARGIN_OF_ERROR))

IsNonZeroCell(v) ==
    ~RIsZero(v) /\ (RLt(v, RSub(R(0), MARGIN_OF_ERROR)) \/ RLt(MARGIN_OF_ERROR, v))

row_has_all_zeros(m, row_to_check, num_cols) ==
    \A col \in 0..(num_cols - 1) : ~IsNonZeroCell(At(m, row_to_check, col, num_cols))

column_has_all_zeros(m, column_to_check, num_rows, num_cols) ==
    \A row \in 0..(num_rows - 1) : ~IsNonZeroCell(At(m, row, column_to_check, num_cols))

calculate_matrix_row_rank(m, md) ==
    Cardinality({row \in 0..(md.num_rows - 1) : ~row_has_all_zeros(m, row, md.num_cols)})

calculate_matrix_column_rank(m, md) ==
    Cardinality({col \in 0..(md.num_cols - 1) :
                    ~column_has_all_zeros(m, col, md.num_rows, md.num_cols)})

rouche_capelli_lt_is_consistent(rA, rAb, num_rows) ==
    IF rA < rAb THEN [is_consistent |-> 1, msg |-> "NotConsistent"]
    ELSE IF rA = rAb
         THEN IF rA < num_rows THEN [is_consistent |-> 1, msg |-> "Infinite"]
              ELSE IF rA = num_rows THEN [is_consistent |-> 1, msg |-> "Unique"]
                   ELSE [is_consistent |-> 1, msg |-> "RankExceeds"]
         ELSE [is_consistent |-> 0, msg |-> "Somehow"]

(* the verdict of is_matrix_consistent_rouche_capelli for row ranks rA, rAb *)
rouche_capelli(rA, rAb, num_rows) ==
    IF rA < rAb THEN [is_consistent |-> 0, msg |-> "NotConsistent"]
    ELSE IF rA = rAb
         THEN IF rA < num_rows THEN [is_consistent |-> 1, msg |-> "Infinite"]
              ELSE IF rA = num_rows THEN [is_consistent |-> 1, msg |-> "Unique"]
                   ELSE [is_consistent |-> 1, msg |-> "RankExceeds"]
         ELSE [is_consistent |-> 1, msg |-> "Somehow"]

(* ----------------------- elementary row operations --------------------- *)
InRow(k, row, num_cols) == (row * num_cols) < k /\ k <= (row + 1) * num_cols

multiply_row_by_scalar(m, row_to_scale, num_cols, scalar) ==
    [k \in 1..Len(m) |->
        IF InRow(k, row_to_scale, num_cols) THEN RMul(m[k], scalar) ELSE m[k]]

add_scaled_row_wrong_sign(m, row_index_to_modify, row_to_use, num_cols, scalar) ==
    [k \in 1..Len(m) |->
        IF InRow(k, row_index_to_modify, num_cols)
        THEN RSub(m[k], RMul(scalar, m[(row_to_use * num_cols) + (k - (row_index_to_modify * num_cols))]))
        ELSE m[k]]

add_scaled_row(m, row_index_to_modify, row_to_use, num_cols, scalar) ==
    [k \in 1..Len(m) |->
        IF InRow(k, row_index_to_modify, num_cols)
        THEN RAdd(m[k], RMul(scalar, m[(row_to_use * num_cols) + (k - (row_index_to_modify * num_cols))]))
        ELSE m[k]]

subtract_scaled_row_no_scale(m, row_index_to_modify, row_to_use, num_cols, scalar) ==
    [k \in 1..Len(m) |->
        IF InRow(k, row_index_to_modify, num_cols)
        THEN RSub(m[k], m[(row_to_use * num_cols) + (k - (row_index_to_modify * num_cols))])
        ELSE m[k]]

subtract_scaled_row(m, row_index_to_modify, row_to_use, num_cols, scalar) ==
    [k \in 1..Len(m) |->
        IF InRow(k, row_index_to_modify, num_cols)
        THEN RSub(m[k], RMul(scalar, m[(row_to_use * num_cols) + (k - (row_index_to_modify * num_cols))]))
        ELSE m[k]]

swap_rows(m, a, b, num_cols) ==
    [k \in 1..Len(m) |->
        IF InRow(k, a, num_cols) THEN m[(b * num_cols) + (k - (a * num_cols))]
        ELSE IF InRow(k, b, num_cols) THEN m[(a * num_cols) + (k - (b * num_cols))]
        ELSE m[k]]

(* ----------------------------- String.c -------------------------------- *)
(* A char is a one-character string.  A char buffer is a record: is_null is  *)
(* TRUE for the NULL pointer, cells is the content of the array otherwise.   *)
(* A struct String carries, besides its four fields, the set `stores` of the *)
(* indices at which a byte was stored into bytes.                            *)
NULL == [is_null |-> TRUE, cells |-> <<>>]

Buffer(n) == [is_null |-> FALSE, cells |-> [k \in 1..n |-> "?"]]

String(bytes, capacity) ==
    [length |-> 0, capacity |-> capacity, attemptedToWriteMoreThanCapacity |-> 0,
     bytes |-> bytes, stores |-> {}]

writeChar_no_capacity_check(value, s) ==
    IF ~s.bytes.is_null
    THEN [s EXCEPT !.bytes.cells = IF s.length < Len(@) THEN [@ EXCEPT ![s.length + 1] = value] ELSE @,
                   !.stores = @ \cup {s.length},
                   !.length = @ + 1]
    ELSE [s EXCEPT !.length = @ + 1]

writeChar(value, s) ==
    IF s.length < s.capacity
    THEN IF ~s.bytes.is_null
         THEN [s EXCEPT !.bytes.cells[s.length + 1] = value,
                        !.stores = @ \cup {s.length},
                        !.length = @ + 1]
         ELSE [s EXCEPT !.length = @ + 1]
    ELSE [s EXCEPT !.attemptedToWriteMoreThanCapacity = 1]

(* the loop of writeSpaces / writeZeros over a buffer: i counts the bytes     *)
(* stored, the flag is set when the loop stopped before i reached num         *)
RECURSIVE FillLoop(_, _, _, _)
FillLoop(ch, i, num, s) ==
    IF i < num /\ s.length < s.capacity
    THEN FillLoop(ch, i + 1, num,
                  [s EXCEPT !.bytes.cells[s.length + 1] = ch,
                            !.stores = @ \cup {s.length},
                            !.length = @ + 1])
    ELSE IF i < num THEN [s EXCEPT !.attemptedToWriteMoreThanCapacity = 1] ELSE s

(* the count-only branch shared by the string and fill operations *)
CountOnly(num, s) ==
    LET finalLength == s.length + num
    IN  IF finalLength <= s.capacity
        THEN [s EXCEPT !.length = finalLength]
        ELSE [s EXCEPT !.length = s.capacity, !.attemptedToWriteMoreThanCapacity = 1]

writeSpaces(numSpaces, s) ==
    IF ~s.bytes.is_null THEN FillLoop(" ", 0, numSpaces, s) ELSE CountOnly(numSpaces, s)

writeZeros(numZeros, s) ==
    IF ~s.bytes.is_null THEN FillLoop("0", 0, numZeros, s) ELSE CountOnly(numZeros, s)

(* the copy loop of writeNulTerminatedString over a buffer; value holds the   *)
(* characters in front of the terminating NUL                                *)
RECURSIVE CopyLoop(_, _, _)
CopyLoop(value, inputOffset, s) ==
    IF inputOffset < Len(value)
    THEN IF s.length < s.capacity
         THEN CopyLoop(value, inputOffset + 1,
                       [s EXCEPT !.bytes.cells[s.length + 1] = value[inputOffset + 1],
                                 !.stores = @ \cup {s.length},
                                 !.length = @ + 1])
         ELSE [s EXCEPT !.attemptedToWriteMoreThanCapacity = 1]
    ELSE s

countCharsOfNulTerminatedString(value) == Len(value)

writeNulTerminatedString(value, s) ==
    IF ~s.bytes.is_null THEN CopyLoop(value, 0, s)
    ELSE CountOnly(countCharsOfNulTerminatedString(value), s)

writeStringNoNullTerminator(value, s) ==
    IF ~s.bytes.is_null THEN CopyLoop(value, 0, s)
    ELSE CountOnly(countCharsOfNulTerminatedString(value), s)

writeNulTerminatedStringRightJustify(value, endLength, s) ==
    LET valueLength == countCharsOfNulTerminatedString(value)
        minimumLength == endLength - s.length
        numSpaces == IF valueLength < minimumLength THEN minimumLength - valueLength ELSE 0
    IN  IF ~s.bytes.is_null
        THEN writeNulTerminatedString(value, writeSpaces(numSpaces, s))
        ELSE CountOnly(numSpaces + valueLength, s)

(* An int64_t is a sign and a magnitude of NumDigits decimal digits, the     *)
(* digit of 10^k at index k + 1; the magnitude of a negative value may be    *)
(* 2^63, of any other value at most 2^63 - 1.                                *)
NumDigits == 19

Reverse(q) == [k \in 1..Len(q) |-> q[Len(q) + 1 - k]]

RECURSIVE DigitsOf(_, _)
DigitsOf(n, len) == IF len = 0 THEN <<>> ELSE <<n % 10>> \o DigitsOf(n \div 10, len - 1)

I64(n) == [neg |-> n < 0, mag |-> DigitsOf(Abs(n), NumDigits)]

INT64_MAX == [neg |-> FALSE, mag |-> Reverse(<<9,2,2,3,3,7,2,0,3,6,8,5,4,7,7,5,8,0,7>>)]

INT64_MIN == [neg |-> TRUE, mag |-> Reverse(<<9,2,2,3,3,7,2,0,3,6,8,5,4,7,7,5,8,0,8>>)]

(* value >= 10^k *)
AtLeastMagnitude(mag, k) == \E j \in (k + 1)..NumDigits : mag[j] # 0

(* value / 10^k *)
RECURSIVE Quotient(_, _)
Quotient(mag, k) == IF k >= NumDigits THEN 0 ELSE mag[k + 1] + 10 * Quotient(mag, k + 1)

(* value - digit * 10^k with digit = value / 10^k *)
Remainder(mag, k) == [j \in 1..NumDigits |-> IF j > k THEN 0 ELSE mag[j]]

DigitChar(digit) == <<"0", "1", "2", "3", "4", "5", "6", "7", "8", "9">>[digit + 1]

(* the sign step of writeNumber / writeDecimalNumber: the sink and the value  *)
(* that the digit loops go on with                                           *)
WriteSign_negate_minimum(value, s) ==
    IF value.neg
    THEN [s |-> writeChar("-", s), mag |-> value.mag]
    ELSE [s |-> s, mag |-> value.mag]

WriteSign(value, s) ==
    IF value.neg
    THEN [s |-> writeChar("-", s),
          mag |-> IF value = INT64_MIN THEN INT64_MAX.mag ELSE value.mag]
    ELSE [s |-> s, mag |-> value.mag]

(* the loop over the magnitudes 10^k down to ten = 10^tenExp *)
RECURSIVE HighDigits(_, _, _, _, _)
HighDigits(mag, k, tenExp, foundHighestMagnitude, s) ==
    IF k >= tenExp
    THEN LET found == foundHighestMagnitude \/ AtLeastMagnitude(mag, k)
         IN  IF found
             THEN HighDigits(Remainder(mag, k), k - 1, tenExp, found,
                             writeChar(DigitChar(Quotient(mag, k)), s))
             ELSE HighDigits(mag, k - 1, tenExp, found, s)
    ELSE [s |-> s, mag |-> mag]

(* the loop over the magnitudes 10^k down to 1 behind the decimal point *)
RECURSIVE LowDigits(_, _, _)
LowDigits(mag, k, s) ==
    IF k >= 0
    THEN LowDigits(Remainder(mag, k), k - 1, writeChar(DigitChar(Quotient(mag, k)), s))
    ELSE s

writeNumber_leading_zeros(value, s) ==
    LET signed == WriteSign(value, s)
        high == HighDigits(signed.mag, NumDigits - 1, 1, TRUE, signed.s)
    IN  writeChar(DigitChar(Quotient(high.mag, 0)), high.s)

writeNumber(value, s) ==
    LET signed == WriteSign(value, s)
        high == HighDigits(signed.mag, NumDigits - 1, 1, FALSE, signed.s)
    IN  writeChar(DigitChar(Quotient(high.mag, 0)), high.s)

writeNumberRightJustify(value, endLength, s) ==
    LET initialLength == s.length
        measured == writeNumber(value, s)
        numSpaces == endLength - measured.length
    IN  IF numSpaces > 0
        THEN writeNumber(value, writeSpaces(numSpaces, [measured EXCEPT !.length = initialLength]))
        ELSE measured

writeNumberZeroPadding(value, endLength, s) ==
    LET initialLength == s.length
        measured == writeNumber(value, s)
        numZeros == endLength - measured.length
    IN  IF numZeros > 0
        THEN writeNumber(value, writeZeros(numZeros, [measured EXCEPT !.length = initialLength]))
        ELSE measured

writeDecimalNumber(value, numDecimalPlacesToWrite, s) ==
    LET signed == WriteSign(value, s)
        tenExp == 1 + Max0(numDecimalPlacesToWrite)
        high == HighDigits(signed.mag, NumDigits - 1, tenExp, FALSE, signed.s)
        ones == writeChar(DigitChar(Quotient(high.mag, tenExp - 1)), high.s)
        rest == Remainder(high.mag, tenExp - 1)
    IN  IF numDecimalPlacesToWrite > 0
        THEN LowDigits(rest, tenExp - 2, writeChar(".", ones))
        ELSE ones

writeDecimalNumberRightJustify(value, numDecimalPlacesToWrite, endLength, s) ==
    LET initialLength == s.length
        measured == writeDecimalNumber(value, numDecimalPlacesToWrite, s)
        numSpaces == endLength - measured.length
    IN  IF numSpaces > 0
        THEN writeDecimalNumber(value, numDecimalPlacesToWrite,
                 writeSpaces(numSpaces, [measured EXCEPT !.length = initialLength]))
        ELSE writeDecimalNumber(value, numDecimalPlacesToWrite, measured)

(* ------------------------- parsing (String.c) ---------------------------- *)
(* charArray is a sequence of chars, *offset counts from 0.  Each parser      *)
(* gives the value it returns, the offset it leaves and whether it returned  *)
(* through one of its `return valueToReturnOnError` statements.              *)
NUL == "NUL"

IsDigit(c) == c \in {"0", "1", "2", "3", "4", "5", "6", "7", "8", "9"}

DigitValue(c) == CHOOSE digit \in 0..9 : DigitChar(digit) = c

(* c >= '5' for a digit c *)
MoreThanFive(c) == DigitValue(c) > 5

AtLeastFive(c) == DigitValue(c) >= 5

(* the loop that reads past the spaces: the offset it stops at and the char  *)
(* it read last                                                              *)
RECURSIVE SkipSpaces(_, _, _, _)
SkipSpaces(charArray, offset, arrayLength, c) ==
    IF offset < arrayLength
    THEN IF charArray[offset + 1] # " "
         THEN [c |-> charArray[offset + 1], offset |-> offset]
         ELSE SkipSpaces(charArray, offset + 1, arrayLength, charArray[offset + 1])
    ELSE [c |-> c, offset |-> offset]

(* the '-' step: ended is TRUE when the input stops right behind the '-' *)
ReadSign(charArray, at, arrayLength) ==
    IF at.c = "-"
    THEN IF at.offset + 1 < arrayLength
         THEN [sign |-> -1, c |-> charArray[at.offset + 2], offset |-> at.offset + 1,
               ended |-> FALSE]
         ELSE [sign |-> -1, c |-> at.c, offset |-> at.offset + 1, ended |-> TRUE]
    ELSE [sign |-> 1, c |-> at.c, offset |-> at.offset, ended |-> FALSE]

(* while (c >= '0' && c <= '9') number = 10 * number + (c - '0'); ended is   *)
(* TRUE when the loop ran out of input                                       *)
RECURSIVE ReadDigits(_, _, _, _, _)
ReadDigits(charArray, offset, arrayLength, c, number) ==
    IF IsDigit(c)
    THEN IF offset + 1 < arrayLength
         THEN ReadDigits(charArray, offset + 1, arrayLength, charArray[offset + 2],
                         10 * number + DigitValue(c))
         ELSE [number |-> 10 * number + DigitValue(c), offset |-> offset + 1, c |-> c,
               ended |-> TRUE]
    ELSE [number |-> number, offset |-> offset, c |-> c, ended |-> FALSE]

Returned(value, offset) == [value |-> value, offset |-> offset, error |-> FALSE]

ReturnedOnError(valueToReturnOnError, offset) ==
    [value |-> valueToReturnOnError, offset |-> offset, error |-> TRUE]

readNumber_lone_minus_is_zero(charArray, offset, arrayLength, valueToReturnOnError) ==
    LET signed == ReadSign(charArray, SkipSpaces(charArray, offset, arrayLength, NUL), arrayLength)
        digits == ReadDigits(charArray, signed.offset, arrayLength, signed.c, 0)
    IN  IF signed.ended THEN Returned(0, signed.offset)
        ELSE IF IsDigit(signed.c) THEN Returned(signed.sign * digits.number, digits.offset)
        ELSE ReturnedOnError(valueToReturnOnError, signed.offset)

readNumber(charArray, offset, arrayLength, valueToReturnOnError) ==
    LET signed == ReadSign(charArray, SkipSpaces(charArray, offset, arrayLength, NUL), arrayLength)
        digits == ReadDigits(charArray, signed.offset, arrayLength, signed.c, 0)
    IN  IF signed.ended THEN ReturnedOnError(valueToReturnOnError, signed.offset)
        ELSE IF IsDigit(signed.c) THEN Returned(signed.sign * digits.number, digits.offset)
        ELSE ReturnedOnError(valueToReturnOnError, signed.offset)

(* for (i = 0; i < places; ++i) number = number * 10 *)
RECURSIVE AddPrecision(_, _)
AddPrecision(number, places) ==
    IF places > 0 THEN AddPrecision(number * 10, places - 1) ELSE number

(* for (i = -1; i > places; --i) number = number / 10 *)
RECURSIVE RemovePrecision(_, _)
RemovePrecision(number, places) ==
    IF -1 > places THEN RemovePrecision(number \div 10, places + 1) ELSE number

(* the loop that reads the digits behind the decimal point *)
RECURSIVE ReadFraction(_, _, _, _, _, _, _)
ReadFraction(charArray, offset, arrayLength, c, number, roundedNumber, places) ==
    IF IsDigit(c)
    THEN LET read == 10 * number + DigitValue(c)
             rounded == IF places > 0 THEN read
                        ELSE IF places = 0 /\ AtLeastFive(c) THEN number + 1
                        ELSE roundedNumber
         IN  IF offset + 1 < arrayLength
             THEN ReadFraction(charArray, offset + 1, arrayLength, charArray[offset + 2],
                               read, rounded, places - 1)
             ELSE [number |-> read, roundedNumber |-> rounded, places |-> places - 1,
                   offset |-> offset + 1, c |-> c, ended |-> TRUE]
    ELSE [number |-> number, roundedNumber |-> roundedNumber, places |-> places,
          offset |-> offset, c |-> c, ended |-> FALSE]

(* the exponent branch: fraction is what the fraction loop left *)
ReadExponent(charArray, arrayLength, sign, fraction) ==
    LET exponent == readNumber(charArray, fraction.offset + 1, arrayLength, 1)
        places == fraction.places + exponent.value
    IN  IF places >= 0
        THEN Returned(sign * AddPrecision(fraction.number, places), exponent.offset)
        ELSE Returned(sign * ((RemovePrecision(fraction.number, places) + 5) \div 10),
                      exponent.offset)

readDecimalNumber(charArray, offset, arrayLength, numDecimalPlacesToReadIn, valueToReturnOnError) ==
    LET signed == ReadSign(charArray, SkipSpaces(charArray, offset, arrayLength, NUL), arrayLength)
        digits == ReadDigits(charArray, signed.offset, arrayLength, signed.c, 0)
        whole == signed.sign * AddPrecision(digits.number, numDecimalPlacesToReadIn)
        fraction == ReadFraction(charArray, digits.offset + 1, arrayLength,
                                 charArray[digits.offset + 2], digits.number, digits.number,
                                 numDecimalPlacesToReadIn)
    IN  IF signed.ended THEN ReturnedOnError(valueToReturnOnError, signed.offset)
        ELSE IF ~IsDigit(signed.c) THEN ReturnedOnError(valueToReturnOnError, signed.offset)
        ELSE IF digits.ended THEN Returned(whole, digits.offset)
        ELSE IF digits.c # "." THEN Returned(whole, digits.offset)
        ELSE IF ~(digits.offset + 1 < arrayLength) THEN Returned(whole, digits.offset + 1)
        ELSE IF fraction.ended
             THEN Returned(signed.sign * AddPrecision(fraction.roundedNumber, fraction.places),
                           fraction.offset)
        ELSE IF fraction.c \in {"e", "E"}
             THEN ReadExponent(charArray, arrayLength, signed.sign, fraction)
        ELSE Returned(signed.sign * AddPrecision(fraction.roundedNumber, fraction.places),
                      fraction.offset)

(* readDouble: the loop that reads the digits behind the decimal point; the  *)
(* divisor is a double                                                       *)
RECURSIVE ReadDoubleFraction(_, _, _, _, _, _)
ReadDoubleFraction(charArray, offset, arrayLength, c, number, divisor) ==
    IF IsDigit(c)
    THEN IF offset + 1 < arrayLength
         THEN ReadDoubleFraction(charArray, offset + 1, arrayLength, charArray[offset + 2],
                                 10 * number + DigitValue(c), RMul(R(10), divisor))
         ELSE [number |-> 10 * number + DigitValue(c), divisor |-> RMul(R(10), divisor),
               offset |-> offset + 1, c |-> c, ended |-> TRUE]
    ELSE [number |-> number, divisor |-> divisor, offset |-> offset, c |-> c, ended |-> FALSE]

(* readDouble from the test for a decimal point to the test for an exponent: *)
(* ended is TRUE when the function returns from inside this part             *)
ReadDoublePoint(charArray, arrayLength, digits) ==
    IF digits.c = "."
    THEN IF digits.offset + 1 < arrayLength
         THEN ReadDoubleFraction(charArray, digits.offset + 1, arrayLength,
                                 charArray[digits.offset + 2], digits.number, R(1))
         ELSE [number |-> digits.number, divisor |-> R(1), offset |-> digits.offset + 1,
               c |-> digits.c, ended |-> TRUE]
    ELSE [number |-> digits.number, divisor |-> R(1), offset |-> digits.offset,
          c |-> digits.c, ended |-> FALSE]

(* while (exponent > 0) divisor = divisor / 10 (or * 10) *)
RECURSIVE ApplyExponent(_, _, _)
ApplyExponent(divisor, exponentSign, exponent) ==
    IF exponent > 0
    THEN ApplyExponent(IF exponentSign = 1 THEN RDiv(divisor, R(10)) ELSE RMul(divisor, R(10)),
                       exponentSign, exponent - 1)
    ELSE divisor

(* readDouble behind an 'e': the divisor and the offset it ends with; the    *)
(* digits of the exponent are read only behind a '-'                         *)
ReadDoubleExponent(charArray, arrayLength, point) ==
    LET offset == point.offset + 1
        c == charArray[offset + 1]
        digits == ReadDigits(charArray, offset + 1, arrayLength, charArray[offset + 2], 0)
    IN  IF ~(offset < arrayLength) THEN [divisor |-> point.divisor, offset |-> offset]
        ELSE IF c = "-"
             THEN IF offset + 1 < arrayLength
                  THEN [divisor |-> ApplyExponent(point.divisor, -1, digits.number),
                        offset |-> digits.offset]
                  ELSE [divisor |-> point.divisor, offset |-> offset + 1]
        ELSE [divisor |-> ApplyExponent(point.divisor, 1, 0), offset |-> offset]

readDouble(charArray, offset, arrayLength, valueToReturnOnError) ==
    LET signed == ReadSign(charArray, SkipSpaces(charArray, offset, arrayLength, NUL), arrayLength)
        digits == ReadDigits(charArray, signed.offset, arrayLength, signed.c, 0)
        point == ReadDoublePoint(charArray, arrayLength, digits)
        exponent == ReadDoubleExponent(charArray, arrayLength, point)
        quotient(number, divisor) == RMul(R(signed.sign), RDiv(R(number), divisor))
    IN  IF signed.ended THEN ReturnedOnError(valueToReturnOnError, signed.offset)
        ELSE IF ~IsDigit(signed.c) THEN ReturnedOnError(valueToReturnOnError, signed.offset)
        ELSE IF digits.ended THEN Returned(R(signed.sign * digits.number), digits.offset)
        ELSE IF point.ended THEN Returned(quotient(point.number, point.divisor), point.offset)
        ELSE IF point.c = "e"
             THEN Returned(quotient(point.number, exponent.divisor), exponent.offset)
        ELSE Returned(quotient(point.number, point.divisor), point.offset)

(* -------------------------------- state -------------------------------- *)
VARIABLES
    pc,                         \* position of the running call
    caller,                     \* exported function the host called last
    message_buffer,             \* TRUE when the host passed a non-null sink
    matrix_to_reduce, metadata, \* the host's base matrix and its metadata
    matrix_augment, matrix_augment_metadata,
    result_matrix, result_matrix_metadata,        \* destination of a host hstack
    augmented_matrix, augmented_matrix_metadata,  \* malloc'ed by the engine
    identity_matrix, identity_matrix_metadata,    \* malloc'ed by the inversion
    size_main_diagonal, i, row, pivot_element,
    swap_rows_flag, swap_multiplier, product_of_diagonal_elements,
    nalloc, nfree,              \* malloc / free calls per buffer
    stdout, sink,               \* lines printed / appended to the sink
    num_row_ops,                \* row operations performed so far
    in0,                        \* the host's state when the running call began
    sw,                         \* a text sink with a destination buffer
    sc,                         \* a text sink of the same capacity with bytes == NULL
    last,                       \* the String.c operation applied last and its arguments
    prs                         \* a parser call: its input, and its result once it ran

host == <<matrix_to_reduce, metadata, matrix_augment, matrix_augment_metadata>>
dest == <<result_matrix, result_matrix_metadata>>
ident == <<identity_matrix, identity_matrix_metadata>>
locals == <<size_main_diagonal, i, row, pivot_element, swap_rows_flag,
            swap_multiplier, product_of_diagonal_elements>>
heap == <<nalloc, nfree>>
out == <<stdout, sink>>
matrix_vars == <<pc, caller, message_buffer, host, dest, augmented_matrix,
                 augmented_matrix_metadata, ident, locals, heap, out, num_row_ops, in0>>
text_vars == <<sw, sc, last, prs>>
vars == <<matrix_vars, text_vars>>

Blocks == {"augmented_matrix", "identity_matrix"}

denominator_value == R(1)

Uninit(n) == [k \in 1..Max0(n) |-> NaN]

DestLen(n) == IF n > MaxCells THEN n ELSE MaxCells

Metadata(r, c, det) ==
    [num_rows |-> r, num_cols |-> c, augmented_matrix_rank |-> 0, matrix_rank |-> 0,
     is_consistent |-> 0, matrix_determinant |-> det]

Snapshot ==
    [matrix |-> matrix_to_reduce, metadata |-> metadata,
     augment |-> matrix_augment, augment_metadata |-> matrix_augment_metadata,
     result |-> result_matrix, result_metadata |-> result_matrix_metadata,
     stdout |-> Len(stdout), sink |-> Len(sink),
     nalloc |-> nalloc, num_row_ops |-> num_row_ops]

InitHost(r, c, a, m, b, det) ==
    /\ matrix_to_reduce = m
    /\ metadata = Metadata(r, c, det)
    /\ matrix_augment = b
    /\ matrix_augment_metadata = Shape(r, a)
    /\ result_matrix = [k \in 1..DestLen(r * (c + a)) |-> Stale]
    /\ result_matrix_metadata = Shape(0, 0)

(* no call is running: the engine's locals, the heap and the output *)
InitEngine ==
    /\ pc = "idle"
    /\ caller = "none"
    /\ augmented_matrix = <<>>
    /\ augmented_matrix_metadata = Shape(0, 0)
    /\ identity_matrix = <<>>
    /\ identity_matrix_metadata = Shape(0, 0)
    /\ size_main_diagonal = 0
    /\ i = 0
    /\ row = 0
    /\ pivot_element = R(0)
    /\ swap_rows_flag = 0
    /\ swap_multiplier = 1
    /\ product_of_diagonal_elements = R(1)
    /\ nalloc = [b \in Blocks |-> 0]
    /\ nfree = [b \in Blocks |-> 0]
    /\ stdout = <<>>
    /\ sink = <<>>
    /\ num_row_ops = 0
    /\ in0 = [matrix |-> matrix_to_reduce, metadata |-> metadata,
              augment |-> matrix_augment, augment_metadata |-> matrix_augment_metadata,
              result |-> result_matrix, result_metadata |-> result_matrix_metadata,
              stdout |-> 0, sink |-> 0, nalloc |-> nalloc, num_row_ops |-> 0]

(* the String.c part of the state while only row_reduction.c is exercised *)
TextIdle ==
    /\ sw = String(Buffer(0), 0)
    /\ sc = String(NULL, 0)
    /\ last = [name |-> "none"]
    /\ prs = [name |-> "none"]

(* the row_reduction.c part of the state while only String.c is exercised *)
MatrixIdle ==
    /\ message_buffer = FALSE
    /\ InitHost(0, 0, 0, <<>>, <<>>, R(0))
    /\ InitEngine

Init ==
    /\ message_buffer \in BOOLEAN
    /\ \E det \in {R(0), R(1)} :
          \/ \E r \in 0..MaxRows, c \in 0..MaxCols, a \in 0..MaxAug :
                /\ r * (c + a) <= MaxCells
                /\ \E m \in SeqsOfLen(Vals, r * c), b \in SeqsOfLen(Vals, r * a) :
                      InitHost(r, c, a, m, b, det)
          \/ InitHost(3, 3, 1, ExampleMatrix, ExampleAugment, det)
    /\ InitEngine
    /\ TextIdle

(* a message goes to the sink when one was passed, to stdout otherwise *)
Emit(msgs) ==
    IF message_buffer
    THEN sink' = sink \o msgs /\ UNCHANGED stdout
    ELSE stdout' = stdout \o msgs /\ UNCHANGED sink

(* ------------------------- the reduction engine ------------------------ *)
(* Entry of python_perform_gauss_jordan_reduction: malloc of the augmented   *)
(* matrix, hstack into it, size of the main diagonal, accumulators.          *)
EnterReduce(base, base_md, aug, aug_md) ==
    LET cells == base_md.num_rows * (base_md.num_cols + aug_md.num_cols)
        h == hstack(base, aug, Uninit(cells), base_md, aug_md)
    IN  /\ nalloc' = [nalloc EXCEPT !["augmented_matrix"] = @ + 1]
        /\ augmented_matrix' = h.matrix
        /\ augmented_matrix_metadata' = h.meta
        /\ size_main_diagonal' =
              IF (h.meta.num_cols - aug_md.num_cols) <= h.meta.num_rows
              THEN h.meta.num_cols - aug_md.num_cols
              ELSE h.meta.num_rows
        /\ swap_rows_flag' = 0
        /\ product_of_diagonal_elements' = R(1)
        /\ swap_multiplier' = 1
        /\ i' = 0
        /\ pc' = "fwd"

ReduceEntry_shape_in_place(base, base_md, aug, aug_md) ==
    /\ EnterReduce(base, base_md, aug, aug_md)
    /\ metadata' = [metadata EXCEPT !.num_cols = base_md.num_cols + aug_md.num_cols]
    /\ UNCHANGED <<matrix_to_reduce, matrix_augment, matrix_augment_metadata>>

ReduceEntry(base, base_md, aug, aug_md) ==
    /\ EnterReduce(base, base_md, aug, aug_md)
    /\ UNCHANGED host

CallReduce ==
    /\ UNCHANGED text_vars
    /\ pc = "idle"
    /\ caller' = "reduce"
    /\ in0' = Snapshot
    /\ ReduceEntry(matrix_to_reduce, metadata, matrix_augment,
                                  matrix_augment_metadata)
    /\ UNCHANGED <<message_buffer, dest, ident, row, pivot_element, nfree, out,
                   num_row_ops>>

FwdPivot_flag_not_set ==
    /\ UNCHANGED text_vars
    /\ pc = "fwd"
    /\ i < size_main_diagonal
    /\ pivot_element' = At(augmented_matrix, i, i, augmented_matrix_metadata.num_cols)
    /\ row' = i + 1
    /\ pc' = "fwd_row"
    /\ UNCHANGED <<caller, message_buffer, host, dest, augmented_matrix,
                   augmented_matrix_metadata, ident, size_main_diagonal, i,
                   swap_rows_flag, swap_multiplier, product_of_diagonal_elements, heap,
                   out, num_row_ops, in0>>

(* forward phase, head of the loop over the main diagonal *)
FwdPivot ==
    /\ UNCHANGED text_vars
    /\ pc = "fwd"
    /\ i < size_main_diagonal
    /\ LET p == At(augmented_matrix, i, i, augmented_matrix_metadata.num_cols)
       IN  /\ pivot_element' = p
           /\ swap_rows_flag' = IF RIsZero(p) THEN 1 ELSE swap_rows_flag
    /\ row' = i + 1
    /\ pc' = "fwd_row"
    /\ UNCHANGED <<caller, message_buffer, host, dest, augmented_matrix,
                   augmented_matrix_metadata, ident, size_main_diagonal, i,
                   swap_multiplier, product_of_diagonal_elements, heap, out,
                   num_row_ops, in0>>

(* forward phase, one row below the pivot: swap, add, subtract or nothing *)
FwdRow ==
    /\ UNCHANGED text_vars
    /\ pc = "fwd_row"
    /\ row < augmented_matrix_metadata.num_rows
    /\ LET nc == augmented_matrix_metadata.num_cols
           value_below_pivot_element == At(augmented_matrix, row, i, nc)
       IN  IF ~RIsZero(value_below_pivot_element)
           THEN IF swap_rows_flag = 1
                THEN LET swapped == swap_rows(augmented_matrix, row, i, nc)
                     IN  /\ augmented_matrix' = swapped
                         /\ swap_rows_flag' = 0
                         /\ pivot_element' = At(swapped, i, i, nc)
                         /\ swap_multiplier' = swap_multiplier * (-1)
                         /\ Emit(<<"SWP", "NewPivot", "MATRIX">>)
                ELSE /\ IF RLt(value_below_pivot_element, R(0))
                        THEN LET reciprocal_fraction_scalar ==
                                     RMul(R(-1), RDiv(value_below_pivot_element, pivot_element))
                             IN  /\ augmented_matrix' =
                                        add_scaled_row(augmented_matrix, row, i, nc,
                                                       reciprocal_fraction_scalar)
                                 /\ Emit(<<"ADD", "MATRIX">>)
                        ELSE LET reciprocal_fraction_scalar ==
                                     RDiv(value_below_pivot_element, pivot_element)
                             IN  /\ augmented_matrix' =
                                        subtract_scaled_row(augmented_matrix, row, i, nc,
                                                            reciprocal_fraction_scalar)
                                 /\ Emit(<<"SUB", "MATRIX">>)
                     /\ UNCHANGED <<swap_rows_flag, pivot_element, swap_multiplier>>
           ELSE /\ Emit(<<"MATRIX">>)
                /\ UNCHANGED <<augmented_matrix, swap_rows_flag, pivot_element,
                               swap_multiplier>>
    /\ num_row_ops' =
          IF ~RIsZero(At(augmented_matrix, row, i, augmented_matrix_metadata.num_cols))
          THEN num_row_ops + 1 ELSE num_row_ops
    /\ row' = row + 1
    /\ UNCHANGED <<pc, caller, message_buffer, host, dest, augmented_matrix_metadata,
                   ident, size_main_diagonal, i, product_of_diagonal_elements, heap, in0>>

FwdNext_no_increment ==
    /\ UNCHANGED text_vars
    /\ pc = "fwd_row"
    /\ ~(row < augmented_matrix_metadata.num_rows)
    /\ product_of_diagonal_elements' = RMul(product_of_diagonal_elements, pivot_element)
    /\ pc' = "fwd"
    /\ UNCHANGED <<caller, message_buffer, host, dest, augmented_matrix,
                   augmented_matrix_metadata, ident, size_main_diagonal, i, row,
                   pivot_element, swap_rows_flag, swap_multiplier, heap, out,
                   num_row_ops, in0>>

FwdNext_product_kept ==
    /\ UNCHANGED text_vars
    /\ pc = "fwd_row"
    /\ ~(row < augmented_matrix_metadata.num_rows)
    /\ i' = i + 1
    /\ pc' = "fwd"
    /\ UNCHANGED <<caller, message_buffer, host, dest, augmented_matrix,
                   augmented_matrix_metadata, ident, size_main_diagonal, row,
                   pivot_element, swap_rows_flag, swap_multiplier,
                   product_of_diagonal_elements, heap, out, num_row_ops, in0>>

(* forward phase, after the last row: the pivot enters the product *)
FwdNext ==
    /\ UNCHANGED text_vars
    /\ pc = "fwd_row"
    /\ ~(row < augmented_matrix_metadata.num_rows)
    /\ product_of_diagonal_elements' = RMul(product_of_diagonal_elements, pivot_element)
    /\ i' = i + 1
    /\ pc' = "fwd"
    /\ UNCHANGED <<caller, message_buffer, host, dest, augmented_matrix,
                   augmented_matrix_metadata, ident, size_main_diagonal, row,
                   pivot_element, swap_rows_flag, swap_multiplier, heap, out,
                   num_row_ops, in0>>

(* end of the forward phase *)
FwdDone ==
    /\ UNCHANGED text_vars
    /\ pc = "fwd"
    /\ ~(i < size_main_diagonal)
    /\ Emit(<<"Shifting">>)
    /\ i' = size_main_diagonal - 1
    /\ pc' = "bwd"
    /\ UNCHANGED <<caller, message_buffer, host, dest, augmented_matrix,
                   augmented_matrix_metadata, ident, size_main_diagonal, row,
                   pivot_element, swap_rows_flag, swap_multiplier,
                   product_of_diagonal_elements, heap, num_row_ops, in0>>

(* backward phase, head of the loop: skip a zero pivot, scale a pivot # 1 *)
BwdPivot ==
    /\ UNCHANGED text_vars
    /\ pc = "bwd"
    /\ i > -1
    /\ LET nc == augmented_matrix_metadata.num_cols
           p == At(augmented_matrix, i, i, nc)
       IN  IF RIsZero(p)
           THEN /\ i' = i - 1
                /\ pivot_element' = p
                /\ UNCHANGED <<pc, row, augmented_matrix, out, num_row_ops>>
           ELSE /\ IF p # R(1)
                   THEN LET pivot_reciprocal == RDiv(R(1), p)
                            scaled == multiply_row_by_scalar(augmented_matrix, i, nc,
                                                             pivot_reciprocal)
                        IN  /\ augmented_matrix' = scaled
                            /\ pivot_element' = At(scaled, i, i, nc)
                            /\ num_row_ops' = num_row_ops + 1
                            /\ Emit(<<"SCL", "MATRIX">>)
                   ELSE /\ pivot_element' = p
                        /\ UNCHANGED <<augmented_matrix, out, num_row_ops>>
                /\ row' = i - 1
                /\ pc' = "bwd_row"
                /\ UNCHANGED i
    /\ UNCHANGED <<caller, message_buffer, host, dest, augmented_matrix_metadata, ident,
                   size_main_diagonal, swap_rows_flag, swap_multiplier,
                   product_of_diagonal_elements, heap, in0>>

(* backward phase, one row above the pivot *)
BwdRow ==
    /\ UNCHANGED text_vars
    /\ pc = "bwd_row"
    /\ row > -1
    /\ LET nc == augmented_matrix_metadata.num_cols
           value_above_pivot_element == At(augmented_matrix, row, i, nc)
       IN  IF ~RIsZero(value_above_pivot_element)
           THEN LET reciprocal_fraction_scalar ==
                        RDiv(value_above_pivot_element, pivot_element)
                IN  /\ augmented_matrix' =
                           subtract_scaled_row(augmented_matrix, row, i, nc,
                                               reciprocal_fraction_scalar)
                    /\ num_row_ops' = num_row_ops + 1
                    /\ Emit(<<"ReciprocalFractionScalar", "SUB", "MATRIX">>)
           ELSE /\ Emit(<<"MATRIX">>)
                /\ UNCHANGED <<augmented_matrix, num_row_ops>>
    /\ row' = row - 1
    /\ UNCHANGED <<pc, caller, message_buffer, host, dest, augmented_matrix_metadata,
                   ident, size_main_diagonal, i, pivot_element, swap_rows_flag,
                   swap_multiplier, product_of_diagonal_elements, heap, in0>>

(* backward phase, after the last row above the pivot *)
BwdNext ==
    /\ UNCHANGED text_vars
    /\ pc = "bwd_row"
    /\ ~(row > -1)
    /\ i' = i - 1
    /\ pc' = "bwd"
    /\ UNCHANGED <<caller, message_buffer, host, dest, augmented_matrix,
                   augmented_matrix_metadata, ident, size_main_diagonal, row,
                   pivot_element, swap_rows_flag, swap_multiplier,
                   product_of_diagonal_elements, heap, out, num_row_ops, in0>>

(* what is_matrix_consistent_rouche_capelli writes to the base metadata *)
analysed(md, verdict) ==
    [md EXCEPT !.is_consistent = verdict.is_consistent]

determinant_without_multiplier(product, denominator, multiplier) ==
    RDiv(product, denominator)

determinant(product, denominator, multiplier) ==
    RMul(RDiv(product, denominator), R(multiplier))

(* finalisation: consistency analysis, metadata summary, determinant *)
Finalize ==
    /\ UNCHANGED text_vars
    /\ pc = "bwd"
    /\ ~(i > -1)
    /\ LET matrix_row_rank == calculate_matrix_row_rank(matrix_to_reduce, metadata)
           augmented_matrix_row_rank ==
               calculate_matrix_row_rank(augmented_matrix, augmented_matrix_metadata)
           verdict == rouche_capelli(matrix_row_rank, augmented_matrix_row_rank,
                                     metadata.num_rows)
           md == analysed(metadata, verdict)
       IN  IF md.is_consistent = 1
           THEN /\ metadata' =
                      [md EXCEPT !.matrix_determinant =
                          determinant(product_of_diagonal_elements, denominator_value,
                                      swap_multiplier)]
                /\ IF message_buffer
                   THEN /\ sink' = sink \o <<verdict.msg, "Product", "Denominator",
                                             "SwapMultiplier", "Determinant">>
                        /\ stdout' = stdout \o <<"METADATA">>
                   ELSE /\ stdout' = stdout \o <<verdict.msg, "METADATA", "Product",
                                                 "Denominator", "SwapMultiplier",
                                                 "Determinant">>
                        /\ UNCHANGED sink
           ELSE /\ metadata' = md
                /\ IF message_buffer
                   THEN /\ sink' = sink \o <<verdict.msg>>
                        /\ stdout' = stdout \o <<"METADATA">>
                   ELSE /\ stdout' = stdout \o <<verdict.msg, "METADATA">>
                        /\ UNCHANGED sink
    /\ pc' = "free"
    /\ UNCHANGED <<caller, message_buffer, matrix_to_reduce, matrix_augment,
                   matrix_augment_metadata, dest, augmented_matrix,
                   augmented_matrix_metadata, ident, locals, heap, num_row_ops, in0>>

released_never(counts, block) == counts

released(counts, block) == [counts EXCEPT ![block] = @ + 1]

(* free(augmented_matrix) and return to the caller *)
FreeAugmented ==
    /\ UNCHANGED text_vars
    /\ pc = "free"
    /\ nfree' = released(nfree, "augmented_matrix")
    /\ pc' = IF caller = "invert" THEN "inv_free" ELSE "done"
    /\ UNCHANGED <<caller, message_buffer, host, dest, augmented_matrix,
                   augmented_matrix_metadata, ident, locals, nalloc, out,
                   num_row_ops, in0>>

(* ------------------------- the inversion routine ----------------------- *)
(* which of the three branches of the inversion routine is taken *)
inversion_branch_rank_first(determinant_value, column_rank, row_rank, md) ==
    IF column_rank # md.num_cols \/ row_rank # md.num_rows \/ column_rank # row_rank
    THEN "NotFullRank"
    ELSE IF RIsZero(determinant_value) THEN "DetZero" ELSE "invert"

inversion_branch_rows_only(determinant_value, column_rank, row_rank, md) ==
    IF RIsZero(determinant_value) THEN "DetZero"
    ELSE IF row_rank # md.num_rows THEN "NotFullRank"
    ELSE "invert"

inversion_branch(determinant_value, column_rank, row_rank, md) ==
    IF RIsZero(determinant_value) THEN "DetZero"
    ELSE IF column_rank # md.num_cols \/ row_rank # md.num_rows \/ column_rank # row_rank
         THEN "NotFullRank"
         ELSE "invert"

(* python_perform_square_matrix_inversion_gaussian_reduction up to its      *)
(* return or up to the entry of the engine it calls                          *)
CallInvert ==
    /\ UNCHANGED text_vars
    /\ pc = "idle" \/ (pc = "done" /\ caller = "reduce")
    /\ caller' = "invert"
    /\ in0' = Snapshot
    /\ LET matrix_column_rank == calculate_matrix_column_rank(matrix_to_reduce, metadata)
           matrix_row_rank == calculate_matrix_row_rank(matrix_to_reduce, metadata)
           branch == inversion_branch(metadata.matrix_determinant, matrix_column_rank,
                                      matrix_row_rank, metadata)
       IN  IF branch = "invert"
           THEN /\ identity_matrix' =
                      generate_square_identity_matrix(metadata.num_rows, metadata.num_cols)
                /\ identity_matrix_metadata' = Shape(metadata.num_rows, metadata.num_rows)
                /\ nalloc' = [nalloc EXCEPT !["identity_matrix"] = @ + 1]
                /\ pc' = "inv_call"
                /\ UNCHANGED out
           ELSE /\ Emit(<<branch>>)
                /\ pc' = "done"
                /\ UNCHANGED <<ident, nalloc>>
    /\ UNCHANGED <<message_buffer, host, dest, augmented_matrix,
                   augmented_matrix_metadata, locals, nfree, num_row_ops>>

(* the inversion routine calls the engine with the identity as the augment *)
InvertReduce ==
    /\ UNCHANGED text_vars
    /\ pc = "inv_call"
    /\ ReduceEntry(matrix_to_reduce, metadata, identity_matrix, identity_matrix_metadata)
    /\ UNCHANGED <<caller, message_buffer, dest, ident, row, pivot_element, nfree, out,
                   num_row_ops, in0>>

(* free(identity_matrix) after the engine returned *)
FreeIdentity ==
    /\ UNCHANGED text_vars
    /\ pc = "inv_free"
    /\ nfree' = released(nfree, "identity_matrix")
    /\ pc' = "done"
    /\ UNCHANGED <<caller, message_buffer, host, dest, augmented_matrix,
                   augmented_matrix_metadata, ident, locals, nalloc, out,
                   num_row_ops, in0>>

(* ------------------------- a host call of hstack ----------------------- *)
CallHstack ==
    /\ UNCHANGED text_vars
    /\ pc = "idle"
    /\ caller' = "hstack"
    /\ in0' = Snapshot
    /\ LET h == hstack(matrix_to_reduce, matrix_augment, result_matrix, metadata,
                       matrix_augment_metadata)
       IN  /\ result_matrix' = h.matrix
           /\ result_matrix_metadata' = h.meta
    /\ pc' = "done"
    /\ UNCHANGED <<message_buffer, host, augmented_matrix, augmented_matrix_metadata,
                   ident, locals, heap, out, num_row_ops>>

(* ------------------------- a host call of vstack ----------------------- *)
CallVstack ==
    /\ UNCHANGED text_vars
    /\ pc = "idle"
    /\ caller' = "vstack"
    /\ in0' = Snapshot
    /\ LET v == vstack(matrix_to_reduce, matrix_augment, result_matrix, metadata,
                       matrix_augment_metadata)
       IN  /\ result_matrix' = v.matrix
           /\ result_matrix_metadata' = v.meta
    /\ pc' = "done"
    /\ UNCHANGED <<message_buffer, host, augmented_matrix, augmented_matrix_metadata,
                   ident, locals, heap, out, num_row_ops>>

Next ==
    \/ CallReduce
    \/ FwdPivot
    \/ FwdRow
    \/ FwdNext
    \/ FwdDone
    \/ BwdPivot
    \/ BwdRow
    \/ BwdNext
    \/ Finalize
    \/ FreeAugmented
    \/ CallInvert
    \/ InvertReduce
    \/ FreeIdentity
    \/ CallHstack
    \/ CallVstack

Spec == Init /\ [][Next]_vars

(* a call that has begun goes on running: the code is sequential *)
FairCells == 4

InitFair ==
    /\ message_buffer \in BOOLEAN
    /\ \E det \in {R(0), R(1)}, r \in 0..MaxRows, c \in 0..MaxCols, a \in 0..MaxAug :
          /\ r * (c + a) <= FairCells
          /\ \E m \in SeqsOfLen(Vals, r * c), b \in SeqsOfLen(Vals, r * a) :
                InitHost(r, c, a, m, b, det)
    /\ InitEngine
    /\ TextIdle

FairSpec == InitFair /\ [][Next]_vars /\ WF_vars(Next)

(* ------------------------ the text sink (String.c) ------------------------ *)
(* Two sinks of the same capacity take the same write operations: sw has a   *)
(* destination buffer, sc has none (bytes == NULL).  `last` names the        *)
(* operation that ran last and holds the two sinks as they were before it.   *)
MaxCapacity == 2

MaxCount == 2

MaxDebt == 2

SinkChars == {"a"}

Counts == (-1)..MaxCount

Texts == {<<>>, <<"a">>, <<"a", "b">>}

EndLengths == 0..(MaxCapacity + 1)

SinkNumbers == {I64(-7)}

Places == {0, 1}

InitSink ==
    /\ MatrixIdle
    /\ \E capacity \in 0..MaxCapacity :
          /\ sw = String(Buffer(capacity), capacity)
          /\ sc = String(NULL, capacity)
          /\ last = [name |-> "String", sw |-> String(Buffer(capacity), capacity),
                     sc |-> String(NULL, capacity)]
    /\ prs = [name |-> "none"]

Ran(name) ==
    /\ sc'.length >= -MaxDebt
    /\ last' = [name |-> name, sw |-> [sw EXCEPT !.stores = {}], sc |-> sc]
    /\ UNCHANGED prs

WriteChar ==
    /\ UNCHANGED matrix_vars
    /\ \E value \in SinkChars :
          /\ sw' = writeChar(value, sw)
          /\ sc' = writeChar(value, sc)
    /\ Ran("writeChar")

WriteSpaces ==
    /\ UNCHANGED matrix_vars
    /\ \E numSpaces \in Counts :
          /\ sw' = writeSpaces(numSpaces, sw)
          /\ sc' = writeSpaces(numSpaces, sc)
    /\ Ran("writeSpaces")

WriteZeros ==
    /\ UNCHANGED matrix_vars
    /\ \E numZeros \in Counts :
          /\ sw' = writeZeros(numZeros, sw)
          /\ sc' = writeZeros(numZeros, sc)
    /\ Ran("writeZeros")

WriteNulTerminatedString ==
    /\ UNCHANGED matrix_vars
    /\ \E value \in Texts :
          /\ sw' = writeNulTerminatedString(value, sw)
          /\ sc' = writeNulTerminatedString(value, sc)
    /\ Ran("writeNulTerminatedString")

WriteStringNoNullTerminator ==
    /\ UNCHANGED matrix_vars
    /\ \E value \in Texts :
          /\ sw' = writeStringNoNullTerminator(value, sw)
          /\ sc' = writeStringNoNullTerminator(value, sc)
    /\ Ran("writeStringNoNullTerminator")

WriteNulTerminatedStringRightJustify ==
    /\ UNCHANGED matrix_vars
    /\ \E value \in Texts, endLength \in EndLengths :
          /\ sw' = writeNulTerminatedStringRightJustify(value, endLength, sw)
          /\ sc' = writeNulTerminatedStringRightJustify(value, endLength, sc)
    /\ Ran("writeNulTerminatedStringRightJustify")

WriteNumber ==
    /\ UNCHANGED matrix_vars
    /\ \E value \in SinkNumbers :
          /\ sw' = writeNumber(value, sw)
          /\ sc' = writeNumber(value, sc)
    /\ Ran("writeNumber")

WriteNumberRightJustify ==
    /\ UNCHANGED matrix_vars
    /\ \E value \in SinkNumbers, endLength \in EndLengths :
          /\ sw' = writeNumberRightJustify(value, endLength, sw)
          /\ sc' = writeNumberRightJustify(value, endLength, sc)
    /\ Ran("writeNumberRightJustify")

WriteNumberZeroPadding ==
    /\ UNCHANGED matrix_vars
    /\ \E value \in SinkNumbers, endLength \in EndLengths :
          /\ sw' = writeNumberZeroPadding(value, endLength, sw)
          /\ sc' = writeNumberZeroPadding(value, endLength, sc)
    /\ Ran("writeNumberZeroPadding")

WriteDecimalNumber ==
    /\ UNCHANGED matrix_vars
    /\ \E value \in SinkNumbers, places \in Places :
          /\ sw' = writeDecimalNumber(value, places, sw)
          /\ sc' = writeDecimalNumber(value, places, sc)
    /\ Ran("writeDecimalNumber")

WriteDecimalNumberRightJustify ==
    /\ UNCHANGED matrix_vars
    /\ \E value \in SinkNumbers, places \in Places, endLength \in EndLengths :
          /\ sw' = writeDecimalNumberRightJustify(value, places, endLength, sw)
          /\ sc' = writeDecimalNumberRightJustify(value, places, endLength, sc)
    /\ Ran("writeDecimalNumberRightJustify")

NextSink ==
    \/ WriteChar
    \/ WriteSpaces
    \/ WriteZeros
    \/ WriteNulTerminatedString
    \/ WriteStringNoNullTerminator
    \/ WriteNulTerminatedStringRightJustify
    \/ WriteNumber
    \/ WriteNumberRightJustify
    \/ WriteNumberZeroPadding
    \/ WriteDecimalNumber
    \/ WriteDecimalNumberRightJustify

SpecSink == InitSink /\ [][NextSink]_vars


(* ----------------------- writeNumber on sample values --------------------- *)
(* One value is drawn and written once into an empty sink that has room for  *)
(* the longest rendering, and into its count-only twin.                      *)
NumberCapacity == 20

MaxSmall == 40

PowerOfTen(k) == [neg |-> FALSE, mag |-> [j \in 1..NumDigits |-> IF j = k + 1 THEN 1 ELSE 0]]

AllNines(k) == [neg |-> FALSE, mag |-> [j \in 1..NumDigits |-> IF j <= k THEN 9 ELSE 0]]

Negated(value) == [value EXCEPT !.neg = TRUE]

NumberSamples ==
    {I64(n) : n \in (-MaxSmall)..MaxSmall}
        \cup {PowerOfTen(k) : k \in 0..(NumDigits - 1)}
        \cup {Negated(PowerOfTen(k)) : k \in 0..(NumDigits - 1)}
        \cup {AllNines(k) : k \in 1..(NumDigits - 1)}
        \cup {INT64_MAX, Negated(INT64_MAX), INT64_MIN}

InitNumber ==
    /\ MatrixIdle
    /\ sw = String(Buffer(NumberCapacity), NumberCapacity)
    /\ sc = String(NULL, NumberCapacity)
    /\ \E value \in NumberSamples : last = [name |-> "String", value |-> value]
    /\ prs = [name |-> "none"]

RenderNumber ==
    /\ UNCHANGED matrix_vars
    /\ last.name = "String"
    /\ sw' = writeNumber(last.value, sw)
    /\ sc' = writeNumber(last.value, sc)
    /\ last' = [last EXCEPT !.name = "writeNumber"]
    /\ UNCHANGED prs

NextNumber == RenderNumber

SpecNumber == InitNumber /\ [][NextNumber]_vars

(* ------------------- right-justified and padded numbers ------------------ *)
(* A sink with room for every rendering below, empty or holding one char,    *)
(* takes one right-justifying or zero-padding write; `last` holds the        *)
(* arguments and the length the sink had before.                             *)
JustifyCapacity == 12

MaxEndLength == 6

MaxJustifyPlaces == 2

JustifyValues == {I64(0), I64(-7), I64(123)}

InitJustify ==
    /\ MatrixIdle
    /\ \E prefix \in {<<>>, <<"a">>} :
          /\ sw = writeStringNoNullTerminator(prefix,
                                              String(Buffer(JustifyCapacity), JustifyCapacity))
          /\ sc = writeStringNoNullTerminator(prefix, String(NULL, JustifyCapacity))
    /\ last = [name |-> "String"]
    /\ prs = [name |-> "none"]

JustifyNumber ==
    /\ UNCHANGED <<matrix_vars, prs>>
    /\ last.name = "String"
    /\ \E value \in JustifyValues, endLength \in 0..MaxEndLength :
          /\ sw' = writeNumberRightJustify(value, endLength, sw)
          /\ sc' = writeNumberRightJustify(value, endLength, sc)
          /\ last' = [name |-> "writeNumberRightJustify", value |-> value, places |-> 0,
                      endLength |-> endLength, initialLength |-> sw.length]

PadNumber ==
    /\ UNCHANGED <<matrix_vars, prs>>
    /\ last.name = "String"
    /\ \E value \in JustifyValues, endLength \in 0..MaxEndLength :
          /\ sw' = writeNumberZeroPadding(value, endLength, sw)
          /\ sc' = writeNumberZeroPadding(value, endLength, sc)
          /\ last' = [name |-> "writeNumberZeroPadding", value |-> value, places |-> 0,
                      endLength |-> endLength, initialLength |-> sw.length]

JustifyDecimalNumber ==
    /\ UNCHANGED <<matrix_vars, prs>>
    /\ last.name = "String"
    /\ \E value \in JustifyValues, places \in 0..MaxJustifyPlaces,
          endLength \in 0..MaxEndLength :
          /\ sw' = writeDecimalNumberRightJustify(value, places, endLength, sw)
          /\ sc' = writeDecimalNumberRightJustify(value, places, endLength, sc)
          /\ last' = [name |-> "writeDecimalNumberRightJustify", value |-> value,
                      places |-> places, endLength |-> endLength,
                      initialLength |-> sw.length]

NextJustify ==
    \/ JustifyNumber
    \/ PadNumber
    \/ JustifyDecimalNumber

SpecJustify == InitJustify /\ [][NextJustify]_vars

(* ------------------------- parsing sample inputs ------------------------- *)
(* One input, a number of decimal places and an error value are drawn, and   *)
(* one of the parsers reads the input from offset 0.                         *)
MaxInput == 4

MaxPlaces == 2

MaxWidth == 8

ParseChars == {" ", "-", ".", "e", "4", "5"}

Sentinels == {-4, 1}

DigitCount(charArray, from, to) == Cardinality({k \in from..to : IsDigit(charArray[k])})

(* the inputs whose values stay below 10^MaxWidth with `places` decimal      *)
(* places, far inside int64_t: at most one exponent digit                    *)
Fits(charArray, places) ==
    LET es == {k \in 1..Len(charArray) : charArray[k] = "e"}
        first == IF es = {} THEN Len(charArray) + 1 ELSE CHOOSE k \in es : \A j \in es : k <= j
        after == DigitCount(charArray, first + 1, Len(charArray))
    IN  /\ after <= 1
        /\ DigitCount(charArray, 1, first - 1) + places
               + (IF es = {} THEN 0 ELSE IF after = 1 THEN 5 ELSE 1) <= MaxWidth

ParseInputs(places) ==
    {charArray \in UNION {[1..n -> ParseChars] : n \in 0..MaxInput} : Fits(charArray, places)}

Unread == [value |-> 0, offset |-> 0, error |-> FALSE]

InitParse ==
    /\ MatrixIdle
    /\ sw = String(Buffer(0), 0)
    /\ sc = String(NULL, 0)
    /\ last = [name |-> "none"]
    /\ \E places \in 0..MaxPlaces, valueToReturnOnError \in Sentinels :
          \/ \E charArray \in ParseInputs(places) :
                prs = [name |-> "input", charArray |-> charArray, places |-> places,
                       valueToReturnOnError |-> valueToReturnOnError, result |-> Unread]
          \/ \E charArray \in {<<"3", ".", "1", "4">>, <<"3", ".", "1", "4", "5">>,
                               <<"-", "3", ".", "1", "4", "5">>} :
                prs = [name |-> "input", charArray |-> charArray, places |-> places,
                       valueToReturnOnError |-> valueToReturnOnError, result |-> Unread]

ReadNumber ==
    /\ UNCHANGED matrix_vars
    /\ UNCHANGED <<sw, sc, last>>
    /\ prs.name = "input"
    /\ prs' = [prs EXCEPT !.name = "readNumber",
                          !.result = readNumber(prs.charArray, 0, Len(prs.charArray),
                                                prs.valueToReturnOnError)]

ReadDecimalNumber ==
    /\ UNCHANGED matrix_vars
    /\ UNCHANGED <<sw, sc, last>>
    /\ prs.name = "input"
    /\ prs' = [prs EXCEPT !.name = "readDecimalNumber",
                          !.result = readDecimalNumber(prs.charArray, 0, Len(prs.charArray),
                                                       prs.places, prs.valueToReturnOnError)]

ReadDouble ==
    /\ UNCHANGED matrix_vars
    /\ UNCHANGED <<sw, sc, last>>
    /\ prs.name = "input"
    /\ prs' = [prs EXCEPT !.name = "readDouble",
                          !.result = readDouble(prs.charArray, 0, Len(prs.charArray),
                                                R(prs.valueToReturnOnError))]

NextParse ==
    \/ ReadNumber
    \/ ReadDecimalNumber
    \/ ReadDouble

SpecParse == InitParse /\ [][NextParse]_vars

(* --------------------- the zero tests on sample cells -------------------- *)
(* A matrix with cells at and around the margin of error is drawn, and one   *)
(* of the four tests is called on it; `last` is the call and what it gave.   *)
ZeroCells == 4

NearZero ==
    {R(0), MARGIN_OF_ERROR, RSub(R(0), MARGIN_OF_ERROR), <<1, 500000>>, <<-1, 500000>>,
     <<1, 2000000>>}

InitZeros ==
    /\ message_buffer = FALSE
    /\ \E r \in 0..MaxRows, c \in 0..MaxCols :
          /\ r * c <= ZeroCells
          /\ \E m \in SeqsOfLen(NearZero, r * c) : InitHost(r, c, 0, m, <<>>, R(0))
    /\ InitEngine
    /\ TextIdle

Called(name, index, result) ==
    /\ last' = [name |-> name, index |-> index, result |-> result]
    /\ UNCHANGED <<sw, sc, prs>>
    /\ UNCHANGED matrix_vars

CallRowHasAllZeros ==
    \E row_to_check \in 0..(metadata.num_rows - 1) :
        Called("row_has_all_zeros", row_to_check,
               IF row_has_all_zeros(matrix_to_reduce, row_to_check, metadata.num_cols)
               THEN 1 ELSE 0)

CallColumnHasAllZeros ==
    \E column_to_check \in 0..(metadata.num_cols - 1) :
        Called("column_has_all_zeros", column_to_check,
               IF column_has_all_zeros(matrix_to_reduce, column_to_check, metadata.num_rows,
                                       metadata.num_cols)
               THEN 1 ELSE 0)

CallRowRank ==
    Called("calculate_matrix_row_rank", 0, calculate_matrix_row_rank(matrix_to_reduce, metadata))

CallColumnRank ==
    Called("calculate_matrix_column_rank", 0,
           calculate_matrix_column_rank(matrix_to_reduce, metadata))

NextZeros ==
    \/ CallRowHasAllZeros
    \/ CallColumnHasAllZeros
    \/ CallRowRank
    \/ CallColumnRank

SpecZeros == InitZeros /\ [][NextZeros]_vars

(* ------------------ the engine on rows wider than row_holder ------------- *)
(* swap_rows copies num_cols doubles into double row_holder[16].  The base   *)
(* matrix has two rows of 16 columns and the augment one column, so a row of *)
(* the augmented matrix has one element more than row_holder has slots.      *)
RowHolderSlots == 16

WideMatrix(x, y, z) ==
    [k \in 1..(2 * RowHolderSlots) |->
        IF k = 1 THEN x ELSE IF k = RowHolderSlots + 1 THEN y
        ELSE IF k = RowHolderSlots + 2 THEN z ELSE R(0)]

InitWide ==
    /\ message_buffer \in BOOLEAN
    /\ \E x \in Vals, y \in Vals, z \in Vals, b \in SeqsOfLen(Vals, 2) :
          InitHost(2, RowHolderSlots, 1, WideMatrix(x, y, z), b, R(1))
    /\ InitEngine
    /\ TextIdle

(* the swap of FwdRow on a row that does not fit row_holder: the memcpy      *)
(* writes behind the array, which is undefined; besides going on as written  *)
(* (FwdRow) the call may be aborted                                          *)
SwapOverrun ==
    /\ UNCHANGED text_vars
    /\ pc = "fwd_row"
    /\ row < augmented_matrix_metadata.num_rows
    /\ ~RIsZero(At(augmented_matrix, row, i, augmented_matrix_metadata.num_cols))
    /\ swap_rows_flag = 1
    /\ augmented_matrix_metadata.num_cols > RowHolderSlots
    /\ pc' = "aborted"
    /\ UNCHANGED <<caller, message_buffer, host, dest, augmented_matrix,
                   augmented_matrix_metadata, ident, size_main_diagonal, i, row,
                   pivot_element, swap_rows_flag, swap_multiplier,
                   product_of_diagonal_elements, heap, out, num_row_ops, in0>>

NextWide ==
    \/ CallReduce
    \/ FwdPivot
    \/ FwdRow
    \/ SwapOverrun
    \/ FwdNext
    \/ FwdDone
    \/ BwdPivot
    \/ BwdRow
    \/ BwdNext
    \/ Finalize
    \/ FreeAugmented

SpecWide == InitWide /\ [][NextWide]_vars

(* ------------------------------- claims -------------------------------- *)
Since(log, from) == SubSeq(log, from + 1, Len(log))

(* what the running call has emitted to its target, and to the other stream *)
Emitted == IF message_buffer THEN Since(sink, in0.sink) ELSE Since(stdout, in0.stdout)
EmittedElsewhere == IF message_buffer THEN Since(stdout, in0.stdout) ELSE Since(sink, in0.sink)

EngineReturned == caller = "reduce" /\ pc = "done"
IsExample == in0.matrix = ExampleMatrix /\ in0.augment = ExampleAugment

(* C1: during and after a call of the reduction engine (direct, or through  *)
(* the inversion routine) the host's base and augment buffers hold the       *)
(* values they held when the call began, and the num_rows / num_cols of both *)
(* metadata records are the ones the call began with.                        *)
C1_HostBuffersUntouched ==
    caller \in {"reduce", "invert"} =>
        /\ matrix_to_reduce = in0.matrix
        /\ matrix_augment = in0.augment
        /\ metadata.num_rows = in0.metadata.num_rows
        /\ metadata.num_cols = in0.metadata.num_cols
        /\ matrix_augment_metadata = in0.augment_metadata

C1_Witness ==
    /\ EngineReturned
    /\ num_row_ops > in0.num_row_ops + 2
    /\ metadata.num_cols > 0
    /\ matrix_augment_metadata.num_cols > 0

(* C2: for the example system the engine reports is_consistent = 1 and ends  *)
(* the backward phase with the augmented matrix [1 0 0 2; 0 1 0 3; 0 0 1 -1] *)
C2_ExampleSolved ==
    (IsExample /\ caller = "reduce" /\ pc \in {"free", "done"}) =>
        /\ metadata.is_consistent = 1
        /\ augmented_matrix = <<R(1), R(0), R(0), R(2),
                                R(0), R(1), R(0), R(3),
                                R(0), R(0), R(1), R(-1)>>

C2_Witness == IsExample /\ EngineReturned /\ num_row_ops >= 9

(* C3 as stated: the determinant stored for the example matrix is 1 *)
C3_ExampleDeterminantIsOne ==
    (IsExample /\ EngineReturned) => metadata.matrix_determinant = R(1)

(* C3 amended: the determinant stored for the example matrix, the product of *)
(* the forward-phase pivots 2, 1/2, -1 times swap_multiplier = 1, is -1      *)
C3_ExampleDeterminantIsMinusOne ==
    (IsExample /\ EngineReturned) =>
        /\ metadata.matrix_determinant = R(-1)
        /\ product_of_diagonal_elements = R(-1)
        /\ swap_multiplier = 1

C3_Witness == IsExample /\ EngineReturned /\ metadata.is_consistent = 1

(* C4 as stated: on return the base metadata holds the row rank of the base  *)
(* matrix in matrix_rank and the row rank of the reduced augmented matrix in *)
(* augmented_matrix_rank                                                     *)
C4_RanksStored ==
    EngineReturned =>
        /\ metadata.matrix_rank = calculate_matrix_row_rank(matrix_to_reduce, metadata)
        /\ metadata.augmented_matrix_rank =
              calculate_matrix_row_rank(augmented_matrix, augmented_matrix_metadata)

VerdictMsgs == {"NotConsistent", "Infinite", "Unique", "RankExceeds", "Somehow"}

VerdictsEmitted == {Emitted[k] : k \in 1..Len(Emitted)} \cap VerdictMsgs

RankOfBase == calculate_matrix_row_rank(matrix_to_reduce, metadata)
RankOfAugmented == calculate_matrix_row_rank(augmented_matrix, augmented_matrix_metadata)

(* C5: once the consistency analyzer has run, is_consistent is 0 exactly     *)
(* when rank(A) < rank(A|b) and 1 otherwise, and the one verdict line is     *)
(* 'not consistent' for rA < rAb, 'infinite solutions' for rA = rAb < rows,  *)
(* 'unique solution' for rA = rAb = rows, 'rank exceeds' for rA = rAb > rows *)
(* and the 'rank(A|b) > n' line for rA > rAb.                                *)
C5_RoucheCapelliVerdict ==
    pc = "free" =>
        /\ metadata.is_consistent = (IF RankOfBase < RankOfAugmented THEN 0 ELSE 1)
        /\ VerdictsEmitted =
              {IF RankOfBase < RankOfAugmented THEN "NotConsistent"
               ELSE IF RankOfBase > RankOfAugmented THEN "Somehow"
               ELSE IF RankOfBase < metadata.num_rows THEN "Infinite"
               ELSE IF RankOfBase = metadata.num_rows THEN "Unique"
               ELSE "RankExceeds"}

(* rank 2 = rank 2 with 3 base rows, classified as infinitely many solutions *)
C5_Witness ==
    /\ pc = "free"
    /\ RankOfBase = 2
    /\ RankOfAugmented = 2
    /\ metadata.num_rows = 3
    /\ metadata.is_consistent = 1
    /\ VerdictsEmitted = {"Infinite"}

InvertedWith(zero_determinant) ==
    /\ caller = "invert"
    /\ RIsZero(in0.metadata.matrix_determinant) = zero_determinant

NotFullRankAtCall ==
    LET column_rank == calculate_matrix_column_rank(in0.matrix, in0.metadata)
        row_rank == calculate_matrix_row_rank(in0.matrix, in0.metadata)
    IN  \/ column_rank # in0.metadata.num_cols
        \/ row_rank # in0.metadata.num_rows
        \/ column_rank # row_rank

NothingDoneBut(msg) ==
    /\ pc = "done"
    /\ Emitted = <<msg>>
    /\ EmittedElsewhere = <<>>
    /\ num_row_ops = in0.num_row_ops
    /\ nalloc = in0.nalloc
    /\ matrix_to_reduce = in0.matrix
    /\ metadata = in0.metadata

(* C6: the inversion routine called with matrix_determinant = 0 emits the    *)
(* one 'determinant of 0' line and returns with no row operation, no         *)
(* allocation and no change of the matrix or its metadata, whatever the rank *)
C6_ZeroDeterminantShortCircuit ==
    InvertedWith(TRUE) => NothingDoneBut("DetZero")

(* a zero determinant together with a matrix that is not of full rank *)
C6_Witness ==
    /\ InvertedWith(TRUE)
    /\ NotFullRankAtCall
    /\ Len(in0.matrix) > 0
    /\ pc = "done"

(* C7: the inversion routine called with a nonzero determinant and a matrix  *)
(* whose non-zero column count differs from num_cols, whose non-zero row     *)
(* count differs from num_rows, or whose two counts differ, emits the one    *)
(* 'does not have full rank' line and returns without entering the engine    *)
(* and without changing the matrix or its metadata                           *)
C7_NotFullRankShortCircuit ==
    (InvertedWith(FALSE) /\ NotFullRankAtCall) => NothingDoneBut("NotFullRank")

(* every row non-zero, one column all zero: only the column count fails *)
C7_Witness ==
    /\ InvertedWith(FALSE)
    /\ pc = "done"
    /\ calculate_matrix_row_rank(in0.matrix, in0.metadata) = in0.metadata.num_rows
    /\ calculate_matrix_column_rank(in0.matrix, in0.metadata) < in0.metadata.num_cols
    /\ in0.metadata.num_rows = in0.metadata.num_cols

(* C8: a buffer is never freed more often than allocated and never allocated *)
(* while outstanding; when a call has returned every allocation has been     *)
(* freed; the two early returns of the inversion routine allocate nothing    *)
C8_AllocatedFreedOnce ==
    /\ \A b \in Blocks : nfree[b] <= nalloc[b] /\ nalloc[b] <= nfree[b] + 1
    /\ pc \in {"idle", "done"} => nalloc = nfree
    /\ (caller = "invert" /\ (InvertedWith(TRUE) \/ NotFullRankAtCall)) =>
           nalloc = in0.nalloc
    /\ pc = "inv_free" => nfree["augmented_matrix"] = nalloc["augmented_matrix"]

(* an inversion that went through the engine and returned *)
C8_Witness ==
    /\ caller = "invert"
    /\ pc = "done"
    /\ nalloc["identity_matrix"] = 1
    /\ nalloc["augmented_matrix"] = 2
    /\ nfree = nalloc

(* C9: hstack of A (r x c1) and B (r x c2), r >= 1 and c1 + c2 >= 1, sets    *)
(* the destination shape to r x (c1 + c2) and result[i][j] to A[i][j] for    *)
(* j < c1 and to B[i][j - c1] for j >= c1, leaving A and B unchanged         *)
C9_HstackConcatenatesRows ==
    (caller = "hstack" /\ in0.metadata.num_rows >= 1
       /\ in0.metadata.num_cols + in0.augment_metadata.num_cols >= 1) =>
        LET r == in0.metadata.num_rows
            c1 == in0.metadata.num_cols
            c2 == in0.augment_metadata.num_cols
        IN  /\ result_matrix_metadata = Shape(r, c1 + c2)
            /\ \A ri \in 0..(r - 1), j \in 0..(c1 + c2 - 1) :
                  At(result_matrix, ri, j, c1 + c2) =
                      IF j < c1 THEN At(in0.matrix, ri, j, c1)
                      ELSE At(in0.augment, ri, j - c1, c2)
            /\ matrix_to_reduce = in0.matrix
            /\ matrix_augment = in0.augment
            /\ metadata = in0.metadata
            /\ matrix_augment_metadata = in0.augment_metadata

C9_Witness ==
    /\ caller = "hstack"
    /\ result_matrix_metadata = Shape(2, 3)
    /\ in0.metadata.num_cols = 2
    /\ matrix_augment[1] # matrix_augment[2]

(* C10: hstack called with num_rows < 1 or c1 + c2 < 1 sets the destination  *)
(* shape to (-1, -1) and leaves every destination element as it was          *)
C10_HstackInvalidShape ==
    (caller = "hstack" /\ (in0.metadata.num_rows < 1
       \/ in0.metadata.num_cols + in0.augment_metadata.num_cols < 1)) =>
        /\ result_matrix_metadata = Shape(-1, -1)
        /\ result_matrix = in0.result
        /\ Len(result_matrix) > 0

C10_Witness ==
    /\ caller = "hstack"
    /\ in0.metadata.num_rows >= 1
    /\ in0.metadata.num_cols + in0.augment_metadata.num_cols < 1
    /\ result_matrix_metadata = Shape(-1, -1)

(* C11: vstack of A (r1 x c) and B (r2 x c2) sets the destination shape to   *)
(* (r1 + r2) x c, the column count of A whatever that of B is, makes the     *)
(* first r1 * c destination cells the cells of A in order and the next       *)
(* r2 * c2 cells the cells of B in order, and writes nothing else            *)
C11_VstackAppendsCells ==
    caller = "vstack" =>
        LET n1 == in0.metadata.num_rows * in0.metadata.num_cols
            n2 == in0.augment_metadata.num_rows * in0.augment_metadata.num_cols
        IN  /\ result_matrix_metadata =
                  Shape(in0.metadata.num_rows + in0.augment_metadata.num_rows,
                        in0.metadata.num_cols)
            /\ \A k \in 1..n1 : result_matrix[k] = in0.matrix[k]
            /\ \A k \in 1..n2 : result_matrix[n1 + k] = in0.augment[k]
            /\ \A k \in (n1 + n2 + 1)..Len(result_matrix) : result_matrix[k] = in0.result[k]
            /\ Len(result_matrix) = Len(in0.result)
            /\ matrix_to_reduce = in0.matrix
            /\ matrix_augment = in0.augment

(* A is 2 x 2, B is 2 x 1: the column counts differ and A's is taken *)
C11_Witness ==
    /\ caller = "vstack"
    /\ in0.metadata = Metadata(2, 2, R(1))
    /\ in0.augment_metadata = Shape(2, 1)
    /\ result_matrix_metadata = Shape(4, 2)
    /\ matrix_augment[1] # matrix_to_reduce[1]

(* C12: a sink made with length 0 and a capacity >= 0 has length <= capacity  *)
(* after any sequence of the eleven write operations, with and without a     *)
(* destination buffer, and no byte is ever stored at an index >= capacity    *)
C12_LengthWithinCapacity ==
    /\ sw.length <= sw.capacity
    /\ sc.length <= sc.capacity
    /\ \A index \in sw.stores : index < sw.capacity
    /\ sc.stores = {}

(* a right-justified number that needed padding and did not fit: the bytes   *)
(* of the measuring pass and of the second pass all stayed inside the buffer *)
C12_Witness ==
    /\ last.name = "writeNumberRightJustify"
    /\ last.sw.length = 1
    /\ sw.capacity = MaxCapacity
    /\ sw.attemptedToWriteMoreThanCapacity = 1
    /\ sc.attemptedToWriteMoreThanCapacity = 1
    /\ sw.length = sw.capacity
    /\ sw.stores = 0..(sw.capacity - 1)
    /\ sw.bytes.cells[2] = " "

(* C13: once attemptedToWriteMoreThanCapacity is set it stays set, length    *)
(* equals capacity then and after every later write operation, and the bytes *)
(* stored before are not altered by later writes                             *)
C13_FlagStickyAndFull ==
    /\ \A s \in {[now |-> sw, before |-> last.sw], [now |-> sc, before |-> last.sc]} :
          /\ s.now.attemptedToWriteMoreThanCapacity = 1 => s.now.length = s.now.capacity
          /\ s.before.attemptedToWriteMoreThanCapacity = 1 =>
                s.now.attemptedToWriteMoreThanCapacity = 1
    /\ last.sw.attemptedToWriteMoreThanCapacity = 1 => sw.bytes = last.sw.bytes

(* the part of C13 that the code keeps: the sink with a destination buffer   *)
WriteModeFlagStickyAndFull ==
    /\ sw.attemptedToWriteMoreThanCapacity = 1 => sw.length = sw.capacity
    /\ last.sw.attemptedToWriteMoreThanCapacity = 1 =>
          /\ sw.attemptedToWriteMoreThanCapacity = 1
          /\ sw.bytes = last.sw.bytes

(* C14: after every write operation, whatever its arguments, the sink with a *)
(* buffer and the sink without one have equal length and equal overflow flag *)
C14_CountOnlyEquivalent ==
    /\ sw.length = sc.length
    /\ sw.attemptedToWriteMoreThanCapacity = sc.attemptedToWriteMoreThanCapacity

(* the part of C14 that the code keeps: the two sinks agree after every      *)
(* operation that was not given a negative count                             *)
EquivalentUnlessNegativeCount ==
    (/\ last.sw.length = last.sc.length
     /\ last.sw.attemptedToWriteMoreThanCapacity = last.sc.attemptedToWriteMoreThanCapacity
     /\ ~(last.name \in {"writeSpaces", "writeZeros"} /\ sc.length < last.sc.length))
        => C14_CountOnlyEquivalent

(* the characters a sink holds *)
Written(s) == SubSeq(s.bytes.cells, 1, s.length)

(* the decimal numeral of a digit sequence: most significant digit first,    *)
(* no leading zeros, one digit at least                                      *)
RECURSIVE Numeral(_, _)
Numeral(mag, top) ==
    IF top > 1 /\ mag[top] = 0 THEN Numeral(mag, top - 1)
    ELSE [k \in 1..top |-> DigitChar(mag[top + 1 - k])]

(* C15: writeNumber into a sink with room writes the decimal numeral of the   *)
(* magnitude, most significant digit first and without leading zeros, behind *)
(* a '-' for a negative value; 0 gives "0" and the minimum 64-bit integer    *)
(* gives "-9223372036854775807"; the count-only twin counts as many chars    *)
C15_NumberRendering ==
    last.name = "writeNumber" =>
        LET value == last.value
            magnitude == IF value = INT64_MIN THEN INT64_MAX.mag ELSE value.mag
            expected == (IF value.neg THEN <<"-">> ELSE <<>>) \o Numeral(magnitude, NumDigits)
        IN  /\ Written(sw) = expected
            /\ sw.attemptedToWriteMoreThanCapacity = 0
            /\ sc.length = Len(expected)
            /\ value = I64(0) => Written(sw) = <<"0">>
            /\ value = INT64_MIN =>
                  Written(sw) = <<"-", "9", "2", "2", "3", "3", "7", "2", "0", "3", "6",
                                  "8", "5", "4", "7", "7", "5", "8", "0", "7">>

(* the minimum 64-bit integer was written: twenty characters *)
C15_Witness ==
    /\ last.name = "writeNumber"
    /\ last.value = INT64_MIN
    /\ sw.length = 20
    /\ sw.bytes.cells[20] = "7"

(* the value of the decimal digits at from..to of an input *)
RECURSIVE DecimalValue(_, _, _)
DecimalValue(charArray, from, to) ==
    IF to < from THEN 0
    ELSE 10 * DecimalValue(charArray, from, to - 1) + DigitValue(charArray[to])

RECURSIVE Pow10(_)
Pow10(n) == IF n <= 0 THEN 1 ELSE 10 * Pow10(n - 1)

(* the inputs C16 is about: spaces, an optional '-', digits, a decimal point *)
(* and digits up to the end of the input; as a record of where the parts are *)
DecimalParts(charArray) ==
    LET nonspace == {k \in 1..Len(charArray) : charArray[k] # " "}
        start == IF nonspace = {} THEN Len(charArray) + 1
                 ELSE CHOOSE k \in nonspace : \A j \in nonspace : k <= j
        neg == start <= Len(charArray) /\ charArray[start] = "-"
        first == IF neg THEN start + 1 ELSE start
        dots == {k \in 1..Len(charArray) : charArray[k] = "."}
        dot == IF dots = {} THEN 0 ELSE CHOOSE k \in dots : TRUE
    IN  [ok |-> /\ Cardinality(dots) = 1
                /\ first < dot
                /\ \A k \in first..(dot - 1) : IsDigit(charArray[k])
                /\ \A k \in (dot + 1)..Len(charArray) : IsDigit(charArray[k]),
         sign |-> IF neg THEN -1 ELSE 1,
         first |-> first,
         dot |-> dot,
         fractionDigits |-> Len(charArray) - dot]

(* C16: readDecimalNumber with D decimal places, on digits '.' digits with    *)
(* more than D fraction digits, gives the number scaled by 10^D, its         *)
(* magnitude one larger when the first discarded digit is >= 5; with at most *)
(* D fraction digits it gives all the digits scaled by the missing power of  *)
(* ten; "3.14" with D = 2 gives 314 and "3.145" with D = 2 gives 315         *)
C16_DecimalRounding ==
    prs.name = "readDecimalNumber" =>
        LET charArray == prs.charArray
            D == prs.places
            parts == DecimalParts(charArray)
            kept == DecimalValue(charArray, parts.first, parts.dot - 1) * Pow10(D)
                        + DecimalValue(charArray, parts.dot + 1, parts.dot + D)
            all == DecimalValue(charArray, parts.first, parts.dot - 1)
                        * Pow10(parts.fractionDigits)
                        + DecimalValue(charArray, parts.dot + 1, Len(charArray))
        IN  /\ (parts.ok /\ parts.fractionDigits > D) =>
                  /\ ~prs.result.error
                  /\ prs.result.value = parts.sign *
                        (kept + IF DigitValue(charArray[parts.dot + D + 1]) >= 5 THEN 1 ELSE 0)
            /\ (parts.ok /\ parts.fractionDigits <= D) =>
                  /\ ~prs.result.error
                  /\ prs.result.value = parts.sign * all * Pow10(D - parts.fractionDigits)
            /\ (charArray = <<"3", ".", "1", "4">> /\ D = 2) => prs.result.value = 314
            /\ (charArray = <<"3", ".", "1", "4", "5">> /\ D = 2) => prs.result.value = 315

(* "3.145" was read with two decimal places and gave 315 *)
C16_Witness ==
    /\ prs.name = "readDecimalNumber"
    /\ prs.charArray = <<"3", ".", "1", "4", "5">>
    /\ prs.places = 2
    /\ prs.result.value = 315
    /\ prs.result.offset = 5

(* behind the leading spaces and an optional '-', the input has ended or     *)
(* goes on with something that is not a decimal digit                        *)
NoDigitBehindPrelude(charArray) ==
    LET nonspace == {k \in 1..Len(charArray) : charArray[k] # " "}
        start == IF nonspace = {} THEN Len(charArray) + 1
                 ELSE CHOOSE k \in nonspace : \A j \in nonspace : k <= j
        first == IF start <= Len(charArray) /\ charArray[start] = "-" THEN start + 1 ELSE start
    IN  first > Len(charArray) \/ ~IsDigit(charArray[first])

(* C17: readNumber, readDecimalNumber and readDouble return through the      *)
(* error path, and then exactly valueToReturnOnError, when behind the spaces *)
(* and an optional '-' there is no decimal digit (empty input, only spaces   *)
(* and a lone '-' included), and in no other case                            *)
C17_SentinelOnErrorPrelude ==
    prs.name \in {"readNumber", "readDecimalNumber", "readDouble"} =>
        /\ prs.result.error <=> NoDigitBehindPrelude(prs.charArray)
        /\ prs.result.error =>
              prs.result.value = IF prs.name = "readDouble" THEN R(prs.valueToReturnOnError)
                                 ELSE prs.valueToReturnOnError

(* readDouble was given a space and a lone '-' and returned the error value *)
C17_Witness ==
    /\ prs.name = "readDouble"
    /\ prs.charArray = <<" ", "-">>
    /\ prs.result.error
    /\ prs.result.value = R(prs.valueToReturnOnError)
    /\ prs.result.offset = 2

(* "-4" was read while the error value was -4: the same value, not an error *)
ParsedValueEqualsSentinel ==
    /\ prs.name = "readNumber"
    /\ prs.charArray = <<"-", "4">>
    /\ prs.valueToReturnOnError = -4
    /\ prs.result = Returned(-4, 2)

(* |v| <= 1e-6 *)
WithinMargin(v) == Abs(v[1]) * 1000000 <= v[2]

RowWithinMargin(ri) ==
    \A ci \in 0..(metadata.num_cols - 1) :
        WithinMargin(At(matrix_to_reduce, ri, ci, metadata.num_cols))

ColumnWithinMargin(ci) ==
    \A ri \in 0..(metadata.num_rows - 1) :
        WithinMargin(At(matrix_to_reduce, ri, ci, metadata.num_cols))

(* C18: row_has_all_zeros / column_has_all_zeros give 1 exactly when every    *)
(* cell v of the row / column has |v| <= 1e-6, so 1e-6 and -1e-6 count as    *)
(* zero, and the two rank functions give the number of rows / columns for    *)
(* which the test gives 0                                                    *)
C18_ZeroTests ==
    /\ last.name = "row_has_all_zeros" => (last.result = 1 <=> RowWithinMargin(last.index))
    /\ last.name = "column_has_all_zeros" =>
          (last.result = 1 <=> ColumnWithinMargin(last.index))
    /\ last.name = "calculate_matrix_row_rank" =>
          last.result = Cardinality({ri \in 0..(metadata.num_rows - 1) :
                                        ~RowWithinMargin(ri)})
    /\ last.name = "calculate_matrix_column_rank" =>
          last.result = Cardinality({ci \in 0..(metadata.num_cols - 1) :
                                        ~ColumnWithinMargin(ci)})

(* a row of 1e-6 and -1e-6 above a row with 2e-6: the row rank is 1 *)
C18_Witness ==
    /\ last.name = "calculate_matrix_row_rank"
    /\ metadata.num_rows = 2
    /\ matrix_to_reduce = <<MARGIN_OF_ERROR, RSub(R(0), MARGIN_OF_ERROR), R(0), <<1, 500000>>>>
    /\ last.result = 1

(* C19: every swap of the reduction engine copies at most 16 elements into   *)
(* the 16 slots of row_holder: the engine swaps no rows of an augmented      *)
(* matrix that is wider than 16                                              *)
C19_SwapWithinHolder ==
    caller = "reduce" =>
        /\ pc # "aborted"
        /\ (\E k \in 1..Len(Emitted) : Emitted[k] = "SWP") =>
              augmented_matrix_metadata.num_cols <= RowHolderSlots

(* the part of C19 that the code keeps: on a matrix of up to MaxCols columns *)
(* swap_rows exchanges rows a and b, keeps every other row, and changes      *)
(* nothing when a = b                                                        *)
SwapRowsExchanges ==
    \A num_cols \in 1..MaxCols :
        \A m \in SeqsOfLen(Vals, MaxRows * num_cols) :
            \A a \in 0..(MaxRows - 1), b \in 0..(MaxRows - 1) :
                LET swapped == swap_rows(m, a, b, num_cols)
                IN  /\ Len(swapped) = Len(m)
                    /\ \A ri \in 0..(MaxRows - 1), ci \in 0..(num_cols - 1) :
                          At(swapped, ri, ci, num_cols) =
                              At(m, IF ri = a THEN b ELSE IF ri = b THEN a ELSE ri, ci,
                                 num_cols)

(* the number of diagonal indices of the base matrix *)
DiagonalSize ==
    IF metadata.num_cols <= metadata.num_rows THEN metadata.num_cols ELSE metadata.num_rows

(* one step of the two phases: the forward phase takes the diagonal indices  *)
(* from 0 up, one at a time, and ends at DiagonalSize; the backward phase    *)
(* takes them from DiagonalSize - 1 down, one at a time, and ends below 0;   *)
(* the inner loops move one row at a time inside the matrix                  *)
PhaseStep ==
    /\ (pc # "fwd" /\ pc # "fwd_row" /\ pc' = "fwd") => i' = 0
    /\ (pc = "fwd" /\ pc' = "fwd_row") =>
          /\ 0 <= i /\ i < DiagonalSize
          /\ i' = i /\ row' = i + 1
    /\ (pc = "fwd_row" /\ pc' = "fwd_row") =>
          /\ i < row /\ row < metadata.num_rows
          /\ i' = i /\ row' = row + 1
    /\ (pc = "fwd_row" /\ pc' = "fwd") => i' = i + 1 /\ row >= metadata.num_rows
    /\ (pc = "fwd" /\ pc' = "bwd") =>
          /\ i = DiagonalSize
          /\ i' < DiagonalSize
          /\ DiagonalSize > 0 => i' = DiagonalSize - 1
    /\ (pc = "bwd" /\ pc' = "bwd" /\ i' # i) =>
          0 <= i /\ i < DiagonalSize /\ i' = i - 1
    /\ (pc = "bwd" /\ pc' = "bwd_row") =>
          /\ 0 <= i /\ i < DiagonalSize
          /\ i' = i /\ row' = i - 1
    /\ (pc = "bwd_row" /\ pc' = "bwd_row") =>
          /\ 0 <= row /\ row < i
          /\ i' = i /\ row' = row - 1
    /\ (pc = "bwd_row" /\ pc' = "bwd") => i' = i - 1 /\ row = -1
    /\ (pc = "bwd" /\ pc' = "free") => i < 0 /\ (DiagonalSize > 0 => i = -1)

(* C20: a call of the reduction engine or of the inversion routine returns,  *)
(* whatever the shape of its input; the forward phase visits the diagonal    *)
(* indices 0..k-1 once each, k the smaller of the base matrix's num_cols and *)
(* num_rows, the backward phase visits k-1..0 once each, and each inner loop *)
(* stays within the rows of the matrix                                       *)
C20_Terminates ==
    /\ (caller \in {"reduce", "invert"} /\ pc # "done") ~> (pc = "done")
    /\ [][PhaseStep]_vars

(* the engine has returned from a 2 x 1 base matrix with an augment column   *)
(* after at least one row operation, both phases run through                 *)
C20_Witness ==
    /\ EngineReturned
    /\ in0.metadata.num_rows = 2
    /\ in0.metadata.num_cols = 1
    /\ in0.augment_metadata.num_cols = 1
    /\ i = -1
    /\ num_row_ops > 0

(* ---------------------------------- C21 ---------------------------------- *)
(* C21: the sink argument selects the output of a call of the engine or of   *)
(* the inversion routine: with a sink every message of the call is appended  *)
(* to the sink and standard output stays as it was when the call began;      *)
(* without a sink everything goes to standard output and no sink is touched  *)
C21_OutputBySinkArgument ==
    caller \in {"reduce", "invert"} =>
        /\ message_buffer => Len(stdout) = in0.stdout
        /\ ~message_buffer => Len(sink) = in0.sink

(* ---------------------------------- C22 ---------------------------------- *)
(* row ri of the reduced augmented matrix reads 0 = b with b nonzero         *)
ContradictoryRow(ri) ==
    LET nc == augmented_matrix_metadata.num_cols
        base_cols == in0.metadata.num_cols
    IN  /\ \A ci \in 0..(base_cols - 1) : RIsZero(At(augmented_matrix, ri, ci, nc))
        /\ \E ci \in base_cols..(nc - 1) : ~RIsZero(At(augmented_matrix, ri, ci, nc))

HasContradictoryRow ==
    \E ri \in 0..(augmented_matrix_metadata.num_rows - 1) : ContradictoryRow(ri)

(* C22: the engine reports every inconsistent system as inconsistent: when   *)
(* the reduced augmented matrix has a row that is zero in the base columns   *)
(* and nonzero in an augment column, the call ends with is_consistent = 0    *)
C22_InconsistentReported ==
    (EngineReturned /\ HasContradictoryRow) => metadata.is_consistent = 0

(* ---------------------------------- C23 ---------------------------------- *)
(* the forward phase is at diagonal index i, the pivot it read there is      *)
(* exactly zero and so is every entry below it in column i                   *)
ZeroPivotNothingBelow ==
    /\ pc = "fwd_row"
    /\ RIsZero(pivot_element)
    /\ \A ri \in (i + 1)..(augmented_matrix_metadata.num_rows - 1) :
          RIsZero(At(augmented_matrix, ri, i, augmented_matrix_metadata.num_cols))

(* at such an index no row is swapped and the pivot product leaves the index *)
(* as zero; a zero pivot product stays zero until the call returns           *)
ZeroPivotStep ==
    /\ ZeroPivotNothingBelow =>
          /\ augmented_matrix' = augmented_matrix
          /\ swap_multiplier' = swap_multiplier
          /\ pc' = "fwd" => RIsZero(product_of_diagonal_elements')
    /\ (RIsZero(product_of_diagonal_elements) /\ pc \in {"fwd", "fwd_row", "bwd", "bwd_row", "free"})
          => RIsZero(product_of_diagonal_elements')

(* C23 as stated: after a zero pivot with nothing but zeros below it the     *)
(* pivot product is 0 and the call ends with matrix_determinant = 0          *)
C23_ZeroPivotZeroDeterminant ==
    (EngineReturned /\ RIsZero(product_of_diagonal_elements))
        => RIsZero(metadata.matrix_determinant)

(* C23, amended: a zero pivot with nothing but zeros below it is not swapped *)
(* and makes the pivot product 0 for the rest of the call; the call ends     *)
(* with matrix_determinant = 0 when it ends with is_consistent = 1, and with *)
(* the caller's matrix_determinant when it ends with is_consistent = 0       *)
C23_ZeroPivotZeroProduct ==
    /\ [][ZeroPivotStep]_vars
    /\ [](EngineReturned /\ RIsZero(product_of_diagonal_elements) =>
            IF metadata.is_consistent = 1
            THEN RIsZero(metadata.matrix_determinant)
            ELSE metadata.matrix_determinant = in0.metadata.matrix_determinant)

(* a call returned with a zero pivot product after row operations and stored *)
(* the zero determinant over the caller's 1                                  *)
C23_Witness ==
    /\ EngineReturned
    /\ RIsZero(product_of_diagonal_elements)
    /\ num_row_ops > 0
    /\ metadata.is_consistent = 1
    /\ in0.metadata.matrix_determinant = R(1)
    /\ in0.metadata.num_cols = 2

(* ---------------------------------- C24 ---------------------------------- *)
BaseCols == in0.metadata.num_cols

Cell(ri, ci) == At(augmented_matrix, ri, ci, augmented_matrix_metadata.num_cols)

ReducedRows == 0..(augmented_matrix_metadata.num_rows - 1)

(* column of the leading entry of row ri within the base columns, BaseCols   *)
(* for a row that is zero there                                              *)
Leading(ri) ==
    LET nonzero == {ci \in 0..(BaseCols - 1) : ~RIsZero(Cell(ri, ci))}
    IN  IF nonzero = {} THEN BaseCols
        ELSE CHOOSE ci \in nonzero : \A cj \in nonzero : ci <= cj

ReducedRowEchelon ==
    /\ \A ri \in ReducedRows :
          Leading(ri) < BaseCols =>
              /\ Cell(ri, Leading(ri)) = R(1)
              /\ \A rj \in ReducedRows \ {ri} : RIsZero(Cell(rj, Leading(ri)))
    /\ \A ri, rj \in ReducedRows :
          (ri < rj /\ Leading(rj) < BaseCols) => Leading(ri) < Leading(rj)

(* the form is reached when no pivot in effect was zero                      *)
ReducedWhenPivotsNonzero ==
    (EngineReturned /\ ~RIsZero(product_of_diagonal_elements)) => ReducedRowEchelon

(* C24: when the backward phase has finished, the base columns of the        *)
(* augmented matrix are in reduced row-echelon form, whatever the input:     *)
(* leading entries are 1 and alone in their column, they move strictly right *)
(* going down, and the zero rows are at the bottom                           *)
C24_ReducedRowEchelon ==
    EngineReturned => ReducedRowEchelon

(* ---------------------------------- C25 ---------------------------------- *)
(* the forward phase has just finished: the backward phase starts at the     *)
(* last diagonal index                                                       *)
ForwardFinished == pc = "bwd" /\ i = size_main_diagonal - 1

UpperTriangular ==
    \A ci \in 0..(size_main_diagonal - 1) :
        \A ri \in (ci + 1)..(augmented_matrix_metadata.num_rows - 1) :
            RIsZero(Cell(ri, ci))

(* a step of the forward phase swaps rows only at an index whose pivot is    *)
(* exactly zero, and eliminates a nonzero entry below a nonzero pivot        *)
SwapOnlyOnZeroPivot ==
    (pc = "fwd_row" /\ pc' = "fwd_row") =>
        /\ swap_multiplier' # swap_multiplier => RIsZero(Cell(i, i))
        /\ ~RIsZero(Cell(i, i)) =>
              RIsZero(At(augmented_matrix', row, i, augmented_matrix_metadata.num_cols))

(* the triangle is reached when no pivot in effect was zero                  *)
TriangularWhenPivotsNonzero ==
    (caller = "reduce" /\ ForwardFinished /\ ~RIsZero(product_of_diagonal_elements))
        => UpperTriangular

(* C25: when the forward phase has finished, every entry below the diagonal  *)
(* in the processed columns 0..k-1 is zero; rows are swapped only at an      *)
(* index whose pivot was exactly zero, and a nonzero entry below a nonzero   *)
(* pivot is eliminated by an add or subtract step                            *)
C25_UpperTriangular ==
    (caller = "reduce" /\ ForwardFinished) => UpperTriangular

SwapOnlyOnZeroPivotAlways == [][SwapOnlyOnZeroPivot]_vars

(* ---------------------------------- C26 ---------------------------------- *)
(* the lines the running call has printed or appended so far                 *)
CallOutput ==
    IF message_buffer THEN SubSeq(sink, in0.sink + 1, Len(sink))
    ELSE SubSeq(stdout, in0.stdout + 1, Len(stdout))

SwapsOfCall == Cardinality({k \in 1..Len(CallOutput) : CallOutput[k] = "SWP"})

MinusOneToThe(n) == IF n % 2 = 0 THEN 1 ELSE -1

EngineRunning == pc \in {"fwd", "fwd_row", "bwd", "bwd_row", "free"}

(* the accumulators start at 1 and the pivot in effect at an index, the      *)
(* entry [i][i] once the rows below it are done, enters the product          *)
AccumulatorStep ==
    /\ (~EngineRunning /\ pc' = "fwd") =>
          product_of_diagonal_elements' = R(1) /\ swap_multiplier' = 1
    /\ (pc = "fwd_row" /\ pc' = "fwd") =>
          product_of_diagonal_elements' = RMul(product_of_diagonal_elements, Cell(i, i))
    /\ (EngineRunning /\ ~(pc = "fwd_row" /\ pc' = "fwd")) =>
          product_of_diagonal_elements' = product_of_diagonal_elements

(* C26: a call of the engine that ends with is_consistent = 1 stores         *)
(* matrix_determinant = (product of the pivots in effect at the diagonal     *)
(* indices) * swap_multiplier, where swap_multiplier is 1 negated once per   *)
(* row swap and the denominator stays 1; a call that ends with               *)
(* is_consistent = 0 leaves matrix_determinant as it was                     *)
C26_DeterminantWriteRule ==
    /\ [][AccumulatorStep]_vars
    /\ [](EngineRunning => swap_multiplier = MinusOneToThe(SwapsOfCall))
    /\ [](denominator_value = R(1))
    /\ [](pc = "free" =>
            IF metadata.is_consistent = 1
            THEN metadata.matrix_determinant =
                     RMul(product_of_diagonal_elements, R(swap_multiplier))
            ELSE metadata.matrix_determinant = in0.metadata.matrix_determinant)

(* the engine has stored the determinant of a 2 x 2 matrix after one swap:   *)
(* a nonzero pivot product with the sign turned                              *)
C26_Witness ==
    /\ pc = "free"
    /\ metadata.is_consistent = 1
    /\ SwapsOfCall = 1
    /\ in0.metadata.num_cols = 2
    /\ ~RIsZero(product_of_diagonal_elements)
    /\ metadata.matrix_determinant = RMul(product_of_diagonal_elements, R(-1))
    /\ metadata.matrix_determinant # in0.metadata.matrix_determinant

(* ---------------------------------- C27 ---------------------------------- *)
(* the chars a number takes when written on its own: the integer for the     *)
(* integer forms, the decimal number for the decimal form                    *)
NaturalRendering ==
    LET blank == String(Buffer(JustifyCapacity), JustifyCapacity)
        alone == IF last.name = "writeDecimalNumberRightJustify"
                 THEN writeDecimalNumber(last.value, last.places, blank)
                 ELSE writeNumber(last.value, blank)
    IN  [k \in 1..alone.length |-> alone.bytes.cells[k]]

JustifiedLength ==
    LET natural == last.initialLength + Len(NaturalRendering)
    IN  IF last.endLength > natural THEN last.endLength ELSE natural

Padding == Max0(last.endLength - last.initialLength - Len(NaturalRendering))

(* the justified write left the claimed length, in the sink with a buffer    *)
(* and in the count-only sink, and did not run out of capacity               *)
EndsAtJustifiedLength ==
    /\ sw.length = JustifiedLength
    /\ sc.length = JustifiedLength
    /\ sw.attemptedToWriteMoreThanCapacity = 0

(* C27: with enough capacity writeDecimalNumberRightJustify leaves the sink  *)
(* at length max(endLength, initialLength + w), w the width of the number    *)
(* written on its own, holding one rendering of the number behind            *)
(* max(0, endLength - initialLength - w) spaces; writeNumberRightJustify and *)
(* writeNumberZeroPadding leave the same length                              *)
C27_JustifiedOnce ==
    /\ last.name \in {"writeNumberRightJustify", "writeNumberZeroPadding",
                       "writeDecimalNumberRightJustify"} => EndsAtJustifiedLength
    /\ last.name = "writeDecimalNumberRightJustify" =>
          SubSeq(sw.bytes.cells, last.initialLength + 1, sw.length)
              = [k \in 1..Padding |-> " "] \o NaturalRendering

(* the two integer forms alone: the length, and the padding chars in front   *)
(* of one rendering of the number                                            *)
IntegerFormsJustifiedOnce ==
    last.name \in {"writeNumberRightJustify", "writeNumberZeroPadding"} =>
        /\ EndsAtJustifiedLength
        /\ SubSeq(sw.bytes.cells, last.initialLength + 1, sw.length)
              = [k \in 1..Padding |->
                    IF last.name = "writeNumberZeroPadding" THEN "0" ELSE " "]
                \o NaturalRendering

(* the decimal form when padding is needed                                   *)
DecimalFormJustifiedWhenPadded ==
    (last.name = "writeDecimalNumberRightJustify" /\ Padding > 0) =>
        /\ EndsAtJustifiedLength
        /\ SubSeq(sw.bytes.cells, last.initialLength + 1, sw.length)
              = [k \in 1..Padding |-> " "] \o NaturalRendering

(* ---------------------------------- C28 ---------------------------------- *)
(* the inputs C28 is about: digits, an 'e', an optional '-' and the digits   *)
(* of the exponent up to the end of the input; as a record of the parts      *)
ExponentParts(charArray) ==
    LET es == {k \in 1..Len(charArray) : charArray[k] = "e"}
        epos == IF es = {} THEN 0 ELSE CHOOSE k \in es : \A j \in es : k <= j
        neg == epos > 0 /\ epos < Len(charArray) /\ charArray[epos + 1] = "-"
        first == IF neg THEN epos + 2 ELSE epos + 1
        ok == /\ epos > 1
              /\ \A k \in 1..(epos - 1) : IsDigit(charArray[k])
              /\ first <= Len(charArray)
              /\ \A k \in first..Len(charArray) : IsDigit(charArray[k])
    IN  [ok |-> ok,
         number |-> IF ok THEN DecimalValue(charArray, 1, epos - 1) ELSE 0,
         negative |-> neg,
         exponent |-> IF ok THEN DecimalValue(charArray, first, Len(charArray)) ELSE 0]

ScaledByExponent(parts) ==
    IF parts.negative THEN RDiv(R(parts.number), R(Pow10(parts.exponent)))
    ELSE R(parts.number * Pow10(parts.exponent))

(* C28: readDouble applies an 'e' exponent in both directions: digits        *)
(* followed by 'e' and an unsigned exponent n give number * 10^n ("4e5" is   *)
(* 400000), digits followed by 'e-' and n give number / 10^n                 *)
C28_ExponentBothDirections ==
    (prs.name = "readDouble" /\ ExponentParts(prs.charArray).ok) =>
        /\ ~prs.result.error
        /\ prs.result.value = ScaledByExponent(ExponentParts(prs.charArray))

(* the negative direction alone: 'e-' and n divide the number by 10^n and    *)
(* the whole input is read                                                   *)
NegativeExponentApplied ==
    (prs.name = "readDouble" /\ ExponentParts(prs.charArray).ok
        /\ ExponentParts(prs.charArray).negative) =>
        /\ ~prs.result.error
        /\ prs.result.value = ScaledByExponent(ExponentParts(prs.charArray))
        /\ prs.result.offset = Len(prs.charArray)

(* an unsigned exponent is not read at all: the number comes back unscaled   *)
(* and the offset is left on the first digit of the exponent                 *)
UnsignedExponentIgnored ==
    (prs.name = "readDouble" /\ ExponentParts(prs.charArray).ok
        /\ ~ExponentParts(prs.charArray).negative) =>
        /\ prs.result.value = R(ExponentParts(prs.charArray).number)
        /\ prs.charArray[prs.result.offset] = "e"

(* ---------------------------------- C29 ---------------------------------- *)
(* the next step of the forward phase computes value / pivot_element         *)
ForwardDivides ==
    /\ pc = "fwd_row"
    /\ row < augmented_matrix_metadata.num_rows
    /\ ~RIsZero(Cell(row, i))
    /\ swap_rows_flag # 1

(* the next step of the backward phase computes 1 / pivot or value / pivot   *)
BackwardScales == pc = "bwd" /\ i > -1 /\ ~RIsZero(Cell(i, i)) /\ Cell(i, i) # R(1)

BackwardDivides == pc = "bwd_row" /\ row > -1 /\ ~RIsZero(Cell(row, i))

NoCellIsNaN ==
    \A ri \in ReducedRows, ci \in 0..(augmented_matrix_metadata.num_cols - 1) :
        Cell(ri, ci) # NaN

(* C29: the engine never divides by a zero pivot: the forward phase computes *)
(* value / pivot only with a nonzero pivot_element (a zero pivot is swapped  *)
(* away before any elimination at its index), the backward phase computes    *)
(* 1 / pivot and value / pivot only with a nonzero pivot at [i][i]; no cell  *)
(* of the augmented matrix ever holds the result of a division by zero       *)
C29_NoDivisionByZeroPivot ==
    /\ ForwardDivides => (pivot_element # NaN /\ ~RIsZero(pivot_element))
    /\ BackwardScales => Cell(i, i) # NaN
    /\ BackwardDivides =>
          (pivot_element # NaN /\ ~RIsZero(pivot_element) /\ pivot_element = Cell(i, i))
    /\ EngineRunning => NoCellIsNaN

(* the forward phase is about to eliminate below a pivot that was zero and   *)
(* has been swapped away at this index                                       *)
C29_Witness ==
    /\ ForwardDivides
    /\ RIsZero(At(in0.matrix, i, i, in0.metadata.num_cols))
    /\ swap_multiplier = -1
    /\ i = 0

(* ---------------------------------- C30 ---------------------------------- *)
Parsed == prs.name \in {"readNumber", "readDecimalNumber", "readDouble"}

(* the cursor, which started at 0, ends inside the input or at its end       *)
CursorWithinInput ==
    Parsed => (0 <= prs.result.offset /\ prs.result.offset <= Len(prs.charArray))

(* the cursor does not stop in front of a digit: a digit there would belong  *)
(* to the digits, the fraction or the exponent that was just read            *)
StopsBehindTheNumber ==
    (~prs.result.error /\ prs.result.offset < Len(prs.charArray))
        => ~IsDigit(prs.charArray[prs.result.offset + 1])

(* C30: the parsers stay inside their input: the cursor never decreases and  *)
(* ends at most at arrayLength, and after a successful parse it stands at    *)
(* arrayLength or at the first character that is not part of the number      *)
C30_ParsersStayInside ==
    /\ CursorWithinInput
    /\ Parsed => StopsBehindTheNumber

(* readNumber and readDecimalNumber alone, and readDouble on the inputs that *)
(* have no unsigned exponent                                                 *)
StopsBehindTheNumberUnlessUnsignedExponent ==
    LET offset == prs.result.offset
        unsigned == /\ prs.name = "readDouble"
                    /\ offset > 0
                    /\ prs.charArray[offset] = "e"
    IN  (Parsed /\ ~unsigned) => StopsBehindTheNumber

(* what lies behind arrayLength has no part in the result: the same call on  *)
(* the input followed by one more char gives the same value and cursor       *)
Reparsed(charArray) ==
    IF prs.name = "readNumber"
    THEN readNumber(charArray, 0, Len(prs.charArray), prs.valueToReturnOnError)
    ELSE IF prs.name = "readDecimalNumber"
    THEN readDecimalNumber(charArray, 0, Len(prs.charArray), prs.places,
                           prs.valueToReturnOnError)
    ELSE readDouble(charArray, 0, Len(prs.charArray), R(prs.valueToReturnOnError))

ReadsNothingBehindTheEnd ==
    Parsed => \A c \in ParseChars : Reparsed(prs.charArray \o <<c>>) = prs.result

====
